---- MODULE Spec2Model ----
(***************************************************************************)
(* Verification model of struxis: the structural pipeline                  *)
(* (SBar -> CBar -> Fractal -> Swing -> Trend), the snowflake id           *)
(* generator, and the market fan-out core (ingress ring, distributor).     *)
(*                                                                         *)
(* Conventions                                                             *)
(*  - f64 prices are small integers; f64::EPSILON comparisons become exact *)
(*    integer comparisons.                                                 *)
(*  - Option<u64>::None is the value None (-1); unwrap_or_default() of it  *)
(*    is 0.                                                                *)
(*  - created_at wall-clock stamps are not part of the records: every      *)
(*    comparison in the source ignores them.                               *)
(*  - Rust vectors are 0-based; the sequences here are 1-based.            *)
(***************************************************************************)
EXTENDS Integers, Sequences, FiniteSets, TLC

\* ------------------------------------------------------------------------
\* Bounds of the model
\* ------------------------------------------------------------------------
MaxBars == 4
MaxPrice == 3
MaxClock == 2

\* ------------------------------------------------------------------------
\* Program constants
\* ------------------------------------------------------------------------
WORKER_ID_BITS == 10
SEQUENCE_BITS == 12
MAX_SEQUENCE == (2 ^ SEQUENCE_BITS) - 1
WORKER_ID_SHIFT == SEQUENCE_BITS
TIMESTAMP_SHIFT == SEQUENCE_BITS + WORKER_ID_BITS
WORKER_SBAR == 1
WORKER_CBAR == 2
WORKER_SWING == 3

None == -1

Max2(a, b) == IF a >= b THEN a ELSE b
Min2(a, b) == IF a <= b THEN a ELSE b
unwrap_or(opt, dflt) == IF opt = None THEN dflt ELSE opt
unwrap_or_default(opt) == unwrap_or(opt, 0)
Last(s) == s[Len(s)]
Front(s) == SubSeq(s, 1, Len(s) - 1)

VARIABLES
    bar_store,          \* AsyncBarStore: the bounded channel, the worker thread and the owner's call
    forwarded,          \* the symbols the adapter took since its latest successful connect
    tr_states,          \* the states of the swings handed to a bare TrendManager
    ws,                 \* BinanceWsAdapter: the shared atomics, the queue and the reader threads
    receiver,           \* DataReceiver: registered_timeframes, tick_aggregators, window_aggregators
    tick_log,           \* the ingest_tick and flush_ticks calls made so far, in order
    windows,            \* BarWindowAggregators fed one stream: bars fed, latest bar and results
    keyzone,            \* KeyZoneManager: rows and id_cursor
    id_lock,            \* for every id generator the thread that holds its mutex, 0 when free
    issued,             \* the ids the generators returned, in order
    managers,           \* MultiTimeframeContext.managers: the registered timeframes
    observable,         \* MultiTimeframeContext.observable
    notified,           \* the calls made on subscribers by the latest append
    config,             \* the BrokerLifecycleConfig of the ResilientAdapter
    wrapper,            \* ResilientAdapter: connected, last_seen, subscriptions, stats;
                        \* last_seen holds the milliseconds elapsed since that Instant
    adapter,            \* the ExchangeAdapter inside the wrapper
    call,               \* the call in progress on the wrapper and where it stands
    calls,              \* the adapter calls and sleeps of the latest wrapper call, in order
    result,             \* what the latest wrapper call returned
    wrapper_calls,      \* how many calls were made on the wrapper
    pump,               \* pump_from_resilient_adapter: its locals and what it returned
    ingest,             \* per thread: where it is in Feed::ingest_broker_bar, calls completed
    snapshot,           \* the MarketMetrics value Feed::metrics is building or has returned
    clock,              \* milliseconds since EPOCH_MS read by current_timestamp_ms()
    sbar_gen,           \* Inner of SBAR_ID_GENERATOR
    cbar_gen,           \* Inner of CBAR_ID_GENERATOR
    swing_gen,          \* Inner of SWING_ID_GENERATOR
    sbar_rows,          \* SBarManager.rows
    cbar_rows,          \* CBarManager.rows
    cbar_backtrack_id,  \* CBarManager.backtrack_id
    swing_rows,         \* SwingManager.rows
    swing_backtrack_id, \* SwingManager.backtrack_id
    trend_rows,         \* TrendManager.rows
    trend_backtrack_id, \* TrendManager.backtrack_id
    tr_points,          \* turning prices of the swings handed to a bare TrendManager
    inputs,             \* the MarketBarInput sequence handed to both receivers
    receiver_b,         \* the timeframe managers of the second DataReceiver
    queue,              \* RingBuffer.queue: the bars held by the ArrayQueue
    capacity,           \* RingBuffer.capacity
    overload_policy,    \* RingBuffer.overload_policy
    push_result,        \* what the latest RingBuffer::push returned
    pop_result,         \* what the latest RingBuffer::pop returned
    ring_ops,           \* the pushes and pops made so far, in order
    threads,            \* where each producer thread stands inside RingBuffer::push
    pop_log,            \* ring specifications: every bar taken out of the queue, in order
    channel_capacity,   \* Distributor.channel_capacity
    channels,           \* the channel map of the Distributor, all shards together
    subscribers,        \* the broadcast::Receiver handles given out by subscribe
    ingested,           \* for every channel key the bars ingested on it, in order
    published,          \* Feed.published
    dropped,            \* Feed.dropped
    dropped_newest,     \* Feed.dropped_newest
    dropped_oldest,     \* Feed.dropped_oldest
    receivers           \* what the latest ingest_broker_bar returned

pipeVars == <<clock, sbar_gen, cbar_gen, swing_gen, sbar_rows, cbar_rows,
              cbar_backtrack_id, swing_rows, swing_backtrack_id>>
trendVars == <<trend_rows, trend_backtrack_id, tr_points>>
detVars == <<inputs, receiver_b>>
ringVars == <<queue, capacity, overload_policy, push_result, pop_result, ring_ops,
              threads, pop_log>>

feedVars == <<channel_capacity, channels, subscribers, ingested, published, dropped,
              dropped_newest, dropped_oldest, receivers>>
marketVars == <<ringVars, feedVars>>
struxisVars == <<pipeVars, trendVars, detVars>>

\* the state of the components one specification leaves alone
metricsVars == <<ingest, snapshot>>
brokerVars == <<config, wrapper, adapter, call, calls, result, wrapper_calls, pump>>
mtcVars == <<managers, observable, notified>>
idVars == <<id_lock, issued>>
keyzoneVars == <<keyzone>>
receiverVars == <<receiver, tick_log, windows>>
wsVars == <<ws>>
seedVars == <<tr_states>>
replayVars == <<forwarded>>
storeVars == <<bar_store>>
quietVars == <<keyzoneVars, receiverVars, wsVars, seedVars, storeVars>>
moreVars == <<seedVars, replayVars, storeVars>>
laterVars == <<receiverVars, wsVars, moreVars>>
extVars == <<keyzoneVars, laterVars>>
restVars == <<metricsVars, brokerVars, mtcVars, idVars, extVars>>
vars == <<struxisVars, marketVars, restVars>>

\* ------------------------------------------------------------------------
\* id_generator.rs
\* ------------------------------------------------------------------------
NewInner == [sequence |-> 0, last_timestamp |-> 0]

\* get_id that takes a clock reading below last_timestamp as it is
get_id_unpinned(inner, worker_id, now) ==
    LET make(ts, seq) ==
            [id |-> ts * (2 ^ TIMESTAMP_SHIFT) + worker_id * (2 ^ WORKER_ID_SHIFT) + seq,
             inner |-> [sequence |-> seq, last_timestamp |-> ts]]
        bump(seq) == IF seq = 0 THEN make(inner.last_timestamp + 1, 0)
                     ELSE make(inner.last_timestamp, seq)
    IN  IF now = inner.last_timestamp
        THEN bump((inner.sequence + 1) % (MAX_SEQUENCE + 1))
        ELSE make(now, 0)

\* IdGenerator::get_id. now is current_timestamp_ms() - EPOCH_MS.  When the
\* sequence wraps the source spins until the clock passes last_timestamp;
\* the first such reading is last_timestamp + 1.
get_id(inner, worker_id, now) ==
    LET make(ts, seq) ==
            [id |-> ts * (2 ^ TIMESTAMP_SHIFT) + worker_id * (2 ^ WORKER_ID_SHIFT) + seq,
             inner |-> [sequence |-> seq, last_timestamp |-> ts]]
        \* ts == guard.last_timestamp: the sequence advances, and a wrap
        \* waits for the next millisecond
        bump(seq) == IF seq = 0 THEN make(inner.last_timestamp + 1, 0)
                     ELSE make(inner.last_timestamp, seq)
    IN  IF now <= inner.last_timestamp
        THEN bump((inner.sequence + 1) % (MAX_SEQUENCE + 1))
        ELSE make(now, 0)

\* ------------------------------------------------------------------------
\* bar.rs
\* ------------------------------------------------------------------------
FractalTypes == {"Top", "Bottom", "None"}

\* Fractal::verify
Fractal_verify(left, middle, right) ==
    LET is_top == /\ middle.high_price >= left.high_price
                  /\ middle.high_price >= right.high_price
                  /\ middle.low_price >= left.low_price
                  /\ middle.low_price >= right.low_price
        is_bottom == /\ middle.high_price <= left.high_price
                     /\ middle.high_price <= right.high_price
                     /\ middle.low_price <= left.low_price
                     /\ middle.low_price <= right.low_price
    IN  IF is_top THEN "Top" ELSE IF is_bottom THEN "Bottom" ELSE "None"

\* ------------------------------------------------------------------------
\* utils.rs
\* ------------------------------------------------------------------------
approx_eq_f64(a, b) == a = b

\* first_changed_id; same[i] is the verdict of the caller's equals closure on
\* previous[i] and current[i], for i up to the shorter length; every row
\* carries .id
RECURSIVE first_changed_from(_, _, _, _)
first_changed_from(previous, current, same, idx) ==
    IF idx > Min2(Len(previous), Len(current)) THEN None
    ELSE IF ~same[idx]
         THEN (IF previous[idx].id # None THEN previous[idx].id ELSE current[idx].id)
         ELSE first_changed_from(previous, current, same, idx + 1)

first_changed_id(previous, current, same, append_as_change) ==
    LET min_len == Min2(Len(previous), Len(current))
        diff == first_changed_from(previous, current, same, 1)
        differs == \E i \in 1..min_len : ~same[i]
    IN  IF differs THEN diff
        ELSE IF Len(previous) > Len(current) THEN previous[min_len + 1].id
        ELSE IF append_as_change /\ Len(current) > Len(previous) THEN current[min_len + 1].id
        ELSE None

\* ------------------------------------------------------------------------
\* cbar_manager.rs
\* ------------------------------------------------------------------------
\* containment recognised in one direction only
is_inclusive_one_sided(a_high, a_low, b_high, b_low) ==
    a_high >= b_high /\ a_low <= b_low

is_inclusive(a_high, a_low, b_high, b_low) ==
    \/ (a_high >= b_high /\ a_low <= b_low)
    \/ (a_high <= b_high /\ a_low >= b_low)

cbar_eq_wo_created_at(a, b) ==
    /\ a.id = b.id
    /\ a.sbar_start_id = b.sbar_start_id
    /\ a.sbar_end_id = b.sbar_end_id
    /\ approx_eq_f64(a.high_price, b.high_price)
    /\ approx_eq_f64(a.low_price, b.low_price)
    /\ a.fractal_type = b.fractal_type

\* first_backtrack_cbar_id with appended rows counted as a change
first_backtrack_cbar_id_counts_appends(previous, current) ==
    first_changed_id(previous, current,
                     [i \in 1..Min2(Len(previous), Len(current)) |->
                          cbar_eq_wo_created_at(previous[i], current[i])],
                     TRUE)

first_backtrack_cbar_id(previous, current) ==
    first_changed_id(previous, current,
                     [i \in 1..Min2(Len(previous), Len(current)) |->
                          cbar_eq_wo_created_at(previous[i], current[i])],
                     FALSE)

\* CBarManager::merge_with_last_if_needed: pops every trailing row that is
\* inclusive with the running merge and returns the rows left and the merge.
RECURSIVE merge_with_last_if_needed(_, _, _, _)
merge_with_last_if_needed(rows, start_id, merged_high, merged_low) ==
    IF rows = <<>> THEN
        [rows |-> rows, start_id |-> start_id, high |-> merged_high, low |-> merged_low]
    ELSE
        LET last == Last(rows) IN
        IF ~is_inclusive(last.high_price, last.low_price, merged_high, merged_low) THEN
            [rows |-> rows, start_id |-> start_id, high |-> merged_high, low |-> merged_low]
        ELSE
            merge_with_last_if_needed(Front(rows), last.sbar_start_id,
                                      Max2(merged_high, last.high_price),
                                      Min2(merged_low, last.low_price))

\* the id loop of on_sbar: every row without an id takes the next id
RECURSIVE assign_ids(_, _, _, _)
assign_ids(rows, idx, inner, now) ==
    LET take(g) == assign_ids([rows EXCEPT ![idx].id = g.id], idx + 1, g.inner, now)
    IN  IF idx > Len(rows) THEN [rows |-> rows, inner |-> inner]
        ELSE IF rows[idx].id = None THEN take(get_id(inner, WORKER_CBAR, now))
        ELSE assign_ids(rows, idx + 1, inner, now)

\* the pivot loop stops one row early: the newest pivot keeps the None it
\* carried while it was the last row
recompute_fractals_short_loop(rows) ==
    [i \in 1..Len(rows) |->
        IF Len(rows) < 3 \/ i = 1 \/ i >= Len(rows) - 1
        THEN [rows[i] EXCEPT !.fractal_type = "None"]
        ELSE [rows[i] EXCEPT !.fractal_type =
                Fractal_verify(rows[i - 1], rows[i], rows[i + 1])]]

\* CBarManager::recompute_fractals
recompute_fractals(rows) ==
    [i \in 1..Len(rows) |->
        IF Len(rows) < 3 \/ i = 1 \/ i = Len(rows)
        THEN [rows[i] EXCEPT !.fractal_type = "None"]
        ELSE [rows[i] EXCEPT !.fractal_type =
                Fractal_verify(rows[i - 1], rows[i], rows[i + 1])]]

\* on_sbar whose merged row starts at the new SBar instead of the first
\* SBar of the rows it absorbed
on_sbar_keeps_start(rows, sbar, inner, now) ==
    LET curr_id == unwrap_or_default(sbar.id)
        new_cbar == [id |-> None, sbar_start_id |-> curr_id, sbar_end_id |-> curr_id,
                     high_price |-> sbar.high_price, low_price |-> sbar.low_price,
                     fractal_type |-> "None"]
        finish(final, inner1) ==
            [rows |-> final, inner |-> inner1,
             backtrack_id |-> first_backtrack_cbar_id(rows, final)]
        relabel(a) == finish(recompute_fractals(a.rows), a.inner)
        push_merged(m) ==
            relabel(assign_ids(
                Append(m.rows,
                       [id |-> None, sbar_start_id |-> curr_id, sbar_end_id |-> curr_id,
                        high_price |-> m.high, low_price |-> m.low,
                        fractal_type |-> "None"]),
                1, inner, now))
    IN  push_merged(merge_with_last_if_needed(Append(rows, new_cbar), curr_id,
                                              sbar.high_price, sbar.low_price))

\* on_sbar pushing the merge result with the low of the new SBar
on_sbar_keeps_low(rows, sbar, inner, now) ==
    LET curr_id == unwrap_or_default(sbar.id)
        new_cbar == [id |-> None, sbar_start_id |-> curr_id, sbar_end_id |-> curr_id,
                     high_price |-> sbar.high_price, low_price |-> sbar.low_price,
                     fractal_type |-> "None"]
        finish(final, inner1) ==
            [rows |-> final, inner |-> inner1,
             backtrack_id |-> first_backtrack_cbar_id(rows, final)]
        relabel(a) == finish(recompute_fractals(a.rows), a.inner)
        push_merged(m) ==
            relabel(assign_ids(
                Append(m.rows,
                       [id |-> None, sbar_start_id |-> m.start_id, sbar_end_id |-> curr_id,
                        high_price |-> m.high, low_price |-> sbar.low_price,
                        fractal_type |-> "None"]),
                1, inner, now))
    IN  push_merged(merge_with_last_if_needed(Append(rows, new_cbar), curr_id,
                                              sbar.high_price, sbar.low_price))

\* CBarManager::on_sbar: the provisional row is pushed, popped again by the
\* merge loop (it is inclusive with itself), and the merge result is pushed.
on_sbar(rows, sbar, inner, now) ==
    LET curr_id == unwrap_or_default(sbar.id)
        new_cbar == [id |-> None, sbar_start_id |-> curr_id, sbar_end_id |-> curr_id,
                     high_price |-> sbar.high_price, low_price |-> sbar.low_price,
                     fractal_type |-> "None"]
        \* 4. recompute_fractals' result against the rows before the call
        finish(final, inner1) ==
            [rows |-> final, inner |-> inner1,
             backtrack_id |-> first_backtrack_cbar_id(rows, final)]
        \* 3. ids are assigned, then the labels are recomputed
        relabel(a) == finish(recompute_fractals(a.rows), a.inner)
        \* 2. the merge result is pushed
        push_merged(m) ==
            relabel(assign_ids(
                Append(m.rows,
                       [id |-> None, sbar_start_id |-> m.start_id, sbar_end_id |-> curr_id,
                        high_price |-> m.high, low_price |-> m.low,
                        fractal_type |-> "None"]),
                1, inner, now))
    IN  push_merged(merge_with_last_if_needed(Append(rows, new_cbar), curr_id,
                                              sbar.high_price, sbar.low_price))

\* ------------------------------------------------------------------------
\* constant.rs
\* ------------------------------------------------------------------------
\* Direction::opposite
opposite(d) == IF d = "Up" THEN "Down" ELSE IF d = "Down" THEN "Up" ELSE "None"

\* ------------------------------------------------------------------------
\* swing.rs.  Option<Fractal>, Option<Swing> and the pending candidate are
\* <<>> for None and <<x>> for Some(x).
\* ------------------------------------------------------------------------
mk_fractal(cbars, i) ==
    [left |-> cbars[i - 1], middle |-> cbars[i], right |-> cbars[i + 1]]

\* FractalExt
fractal_type(f) == Fractal_verify(f.left, f.middle, f.right)
fractal_high_price(f) ==
    Max2(Max2(f.left.high_price, f.middle.high_price), f.right.high_price)
fractal_low_price(f) ==
    Min2(Min2(f.left.low_price, f.middle.low_price), f.right.low_price)

\* Swing::distance
swing_distance(s) == s.high_price - s.low_price

find_fractal_by_middle_id(cbars, middle_id) ==
    LET first_of(hits) ==
            IF hits = {} THEN <<>>
            ELSE <<mk_fractal(cbars, CHOOSE i \in hits : \A j \in hits : i <= j)>>
    IN  IF Len(cbars) < 3 THEN <<>>
        ELSE first_of({i \in 2..(Len(cbars) - 1) :
                          /\ cbars[i].id = middle_id
                          /\ fractal_type(mk_fractal(cbars, i)) # "None"})

fractal_overlap(start, end, strict) ==
    LET overlaps(lo, hi) == IF strict THEN lo <= hi ELSE lo < hi
    IN  overlaps(Max2(fractal_low_price(start), fractal_low_price(end)),
                 Min2(fractal_high_price(start), fractal_high_price(end)))

AbsDiff(a, b) == IF a >= b THEN a - b ELSE b - a
SaturatingSub(a, b) == IF a >= b THEN a - b ELSE 0

determine_swing(start_opt, end_fractal, active_swing, prev_opt, bootstrap_reference_break_ok) ==
    LET \* the amplitude and length test against the previous swing
        long_enough(prev_swing, distance, count_between) ==
            IF swing_distance(prev_swing) <= 0 THEN FALSE
            \* distance / prev_swing.distance() < 0.6
            ELSE IF 5 * distance < 3 * swing_distance(prev_swing) THEN FALSE
            ELSE count_between >= 5
        decide(start_fractal, start_ft, end_ft) ==
            IF start_ft = "None" \/ end_ft = "None" THEN FALSE
            ELSE IF start_ft = end_ft THEN FALSE
            ELSE IF ~bootstrap_reference_break_ok THEN FALSE
            ELSE IF active_swing.direction = "Up"
                    /\ fractal_high_price(end_fractal) < fractal_low_price(start_fractal)
                 THEN FALSE
            ELSE IF active_swing.direction # "Up"
                    /\ fractal_low_price(end_fractal) > fractal_high_price(start_fractal)
                 THEN FALSE
            ELSE IF ~fractal_overlap(start_fractal, end_fractal, TRUE) THEN TRUE
            ELSE IF ~fractal_overlap(start_fractal, end_fractal, FALSE) THEN TRUE
            ELSE IF prev_opt = <<>> THEN TRUE
            ELSE long_enough(
                     prev_opt[1],
                     Max2(fractal_high_price(start_fractal), fractal_high_price(end_fractal))
                       - Min2(fractal_low_price(start_fractal), fractal_low_price(end_fractal)),
                     SaturatingSub(AbsDiff(unwrap_or_default(end_fractal.middle.id),
                                           unwrap_or_default(start_fractal.middle.id)), 1))
    IN  IF start_opt = <<>> THEN FALSE
        ELSE decide(start_opt[1], fractal_type(start_opt[1]), fractal_type(end_fractal))

should_reanchor_start(start_opt, current_fractal, direction) ==
    LET decide(start, start_ft, current_ft) ==
            IF start_ft = "None" \/ current_ft = "None" \/ start_ft # current_ft THEN FALSE
            ELSE IF direction = "Down" THEN
                /\ current_ft = "Top"
                /\ fractal_high_price(current_fractal) >= fractal_high_price(start)
            ELSE IF direction = "Up" THEN
                /\ current_ft = "Bottom"
                /\ fractal_low_price(current_fractal) <= fractal_low_price(start)
            ELSE FALSE
    IN  IF start_opt = <<>> THEN FALSE
        ELSE decide(start_opt[1], fractal_type(start_opt[1]), fractal_type(current_fractal))

\* latest_fractal_before: the scan skips rows without id and stops at the
\* first middle whose id is not below before_middle_id
latest_fractal_before(cbars, before_middle_id, kind) ==
    LET interior == 2..(Len(cbars) - 1)
        last_of(hits) ==
            IF hits = {} THEN <<>>
            ELSE <<mk_fractal(cbars, CHOOSE i \in hits : \A j \in hits : i >= j)>>
        scan_to(stop) ==
            last_of({i \in interior : /\ i < stop
                                      /\ cbars[i].id # None
                                      /\ fractal_type(mk_fractal(cbars, i)) = kind})
        first_of(stops) ==
            IF stops = {} THEN Len(cbars) ELSE CHOOSE i \in stops : \A j \in stops : i <= j
    IN  IF Len(cbars) < 3 THEN <<>>
        ELSE scan_to(first_of({i \in interior :
                                  cbars[i].id # None /\ cbars[i].id >= before_middle_id}))

end_breaks_start_reference(cbars, start_fractal, end_fractal, direction) ==
    LET reference_kind == IF direction = "Down" THEN "Bottom" ELSE "Top"
        breaks(reference) ==
            IF reference = <<>> THEN FALSE
            ELSE IF direction = "Down"
                 THEN fractal_low_price(end_fractal) < fractal_low_price(reference[1])
                 ELSE fractal_high_price(end_fractal) > fractal_high_price(reference[1])
        decide(end_kind) ==
            IF end_kind = "None" THEN FALSE
            ELSE IF direction \notin {"Up", "Down"} THEN FALSE
            ELSE IF end_kind # reference_kind THEN FALSE
            ELSE breaks(latest_fractal_before(
                            cbars, unwrap_or_default(start_fractal.middle.id),
                            reference_kind))
    IN  decide(fractal_type(end_fractal))

should_resume_previous_swing(prev_pending, active, fractal) ==
    IF prev_pending.state # "PendingReverse" THEN FALSE
    ELSE IF prev_pending.direction = active.direction THEN FALSE
    ELSE IF prev_pending.direction = "Down" THEN
        fractal_type(fractal) = "Bottom" /\ fractal_low_price(fractal) < active.low_price
    ELSE IF prev_pending.direction = "Up" THEN
        fractal_type(fractal) = "Top" /\ fractal_high_price(fractal) > active.high_price
    ELSE FALSE

\* cbar_by_id: the first row carrying the id, <<>> when there is none
cbar_by_id(cbars, id) ==
    LET first_of(hits) ==
            IF hits = {} THEN <<>>
            ELSE <<cbars[CHOOSE i \in hits : \A j \in hits : i <= j]>>
    IN  first_of({i \in 1..Len(cbars) : cbars[i].id = id})

\* cbar_ids_in_range: ids of the rows with lo <= id <= hi, in row order
cbar_ids_in_range(cbars, start_id, end_id) ==
    LET lo == Min2(start_id, end_id)
        hi == Max2(start_id, end_id)
        InRange(x) == x.id # None /\ lo <= x.id /\ x.id <= hi
        ids_of(sel) == [i \in 1..Len(sel) |-> sel[i].id]
    IN  ids_of(SelectSeq(cbars, InRange))

RECURSIVE extreme_fold(_, _, _, _, _)
extreme_fold(cbars, ids, k, best, direction) ==
    LET better(cbar, id, prev, prev_id) ==
            IF direction = "Up" THEN
                \/ cbar.high_price > prev.high_price
                \/ (approx_eq_f64(cbar.high_price, prev.high_price) /\ id > prev_id)
            ELSE IF direction = "Down" THEN
                \/ cbar.low_price < prev.low_price
                \/ (approx_eq_f64(cbar.low_price, prev.low_price) /\ id > prev_id)
            ELSE FALSE
        visit(cbar, id) ==
            IF best = <<>> THEN extreme_fold(cbars, ids, k + 1, <<cbar, id>>, direction)
            ELSE extreme_fold(cbars, ids, k + 1,
                              IF better(cbar, id, best[1], best[2]) THEN <<cbar, id>>
                              ELSE best,
                              direction)
    IN  IF k > Len(ids) THEN best
        ELSE visit(cbar_by_id(cbars, ids[k])[1], ids[k])

\* find_swing_extreme_cbar_id: None when the range holds no row
find_swing_extreme_cbar_id(cbars, start_id, end_id, direction) ==
    LET pick(ids) == IF ids = <<>> THEN None
                     ELSE extreme_fold(cbars, ids, 1, <<>>, direction)[2]
    IN  pick(cbar_ids_in_range(cbars, start_id, end_id))

\* fold(f64::max) / fold(f64::min) / iter().max() / iter().min() over the
\* values of a non-empty selection
SeqMax(s) == CHOOSE v \in {s[i] : i \in 1..Len(s)} : \A i \in 1..Len(s) : v >= s[i]

SeqMin(s) == CHOOSE v \in {s[i] : i \in 1..Len(s)} : \A i \in 1..Len(s) : v <= s[i]

apply_cbar_range_stats(swing, cbars) ==
    LET lo == Min2(swing.cbar_start_id, swing.cbar_end_id)
        hi == Max2(swing.cbar_start_id, swing.cbar_end_id)
        InRange(x) == x.id # None /\ lo <= x.id /\ x.id <= hi
        \* sbar_end stays when the fold ends at its initial 0
        nonzero_or(v, old) == IF v # 0 THEN v ELSE old
        stats(sel) ==
            IF sel = <<>> THEN swing
            ELSE [swing EXCEPT
                    !.sbar_start_id = SeqMin([i \in 1..Len(sel) |-> sel[i].sbar_start_id]),
                    !.sbar_end_id =
                        nonzero_or(SeqMax([i \in 1..Len(sel) |-> sel[i].sbar_end_id]), @),
                    !.high_price = SeqMax([i \in 1..Len(sel) |-> sel[i].high_price]),
                    !.low_price = SeqMin([i \in 1..Len(sel) |-> sel[i].low_price])]
    IN  stats(SelectSeq(cbars, InRange))

swing_eq_wo_created_at(a, b) ==
    /\ a.id = b.id
    /\ a.direction = b.direction
    /\ a.cbar_start_id = b.cbar_start_id
    /\ a.cbar_end_id = b.cbar_end_id
    /\ a.sbar_start_id = b.sbar_start_id
    /\ a.sbar_end_id = b.sbar_end_id
    /\ approx_eq_f64(a.high_price, b.high_price)
    /\ approx_eq_f64(a.low_price, b.low_price)
    /\ a.span = b.span
    /\ approx_eq_f64(a.volume, b.volume)
    /\ approx_eq_f64(a.start_oi, b.start_oi)
    /\ approx_eq_f64(a.end_oi, b.end_oi)
    /\ a.state = b.state

\* SwingManager::append_from_fractal
append_from_fractal(rows, fractal, right_cbar, completed, inner, now) ==
    LET direction_of(ft) == IF ft = "Top" THEN "Down"
                            ELSE IF ft = "Bottom" THEN "Up" ELSE "None"
        push(g) ==
            [rows |-> Append(rows,
                [id |-> g.id,
                 direction |-> direction_of(Fractal_verify(fractal.left, fractal.middle,
                                                           fractal.right)),
                 cbar_start_id |-> unwrap_or_default(fractal.middle.id),
                 cbar_end_id |-> unwrap_or_default(right_cbar.id),
                 sbar_start_id |-> fractal.middle.sbar_start_id,
                 sbar_end_id |-> right_cbar.sbar_end_id,
                 high_price |-> Max2(fractal.middle.high_price, right_cbar.high_price),
                 low_price |-> Min2(fractal.middle.low_price, right_cbar.low_price),
                 span |-> 1, volume |-> 0, start_oi |-> 0, end_oi |-> 0,
                 state |-> IF completed THEN "Confirmed" ELSE "Forming"]),
             inner |-> g.inner]
    IN  push(get_id(inner, WORKER_SWING, now))

\* One iteration of the loop of rebuild_from_cbars_with_backtrack for a pivot
\* whose triple is a fractal.  st = [rows, pending_candidate, inner]; the
\* pending candidate is <<index, fractal>>.
swing_step(cbars, fractal, st, now) ==
    LET rows == st.rows
        active_index == Len(rows)
        \* a capped or pending swing goes on to fractal.right
        resumed(row) ==
            [row EXCEPT !.state = "Forming",
                        !.cbar_end_id = unwrap_or(fractal.right.id, @),
                        !.sbar_end_id = fractal.right.sbar_end_id,
                        !.high_price = Max2(@, fractal_high_price(fractal)),
                        !.low_price = Min2(@, fractal_low_price(fractal))]
        \* the capped swing waits for its reversal and the next swing opens
        open_next(rows1, capped, g) ==
            [rows |-> Append([rows1 EXCEPT ![active_index] = capped],
                [id |-> g.id,
                 direction |-> opposite(capped.direction),
                 cbar_start_id |-> capped.cbar_end_id,
                 cbar_end_id |-> unwrap_or_default(fractal.right.id),
                 sbar_start_id |-> capped.sbar_end_id,
                 sbar_end_id |-> fractal.right.sbar_end_id,
                 high_price |-> IF capped.direction = "Up" THEN capped.high_price
                                ELSE fractal.right.high_price,
                 low_price |-> IF capped.direction = "Down" THEN capped.low_price
                               ELSE fractal.right.low_price,
                 span |-> 1, volume |-> 0, start_oi |-> 0, end_oi |-> 0,
                 state |-> "Forming"]),
             pending_candidate |-> <<active_index, fractal>>,
             inner |-> g.inner]
        \* determine_swing held: the active swing ends at the extreme CBar of
        \* its range
        cap(rows1, active, provisional_end_id) ==
            open_next(rows1,
                      [apply_cbar_range_stats(
                           [active EXCEPT !.cbar_end_id =
                               unwrap_or(find_swing_extreme_cbar_id(
                                             cbars, active.cbar_start_id,
                                             provisional_end_id, active.direction),
                                         provisional_end_id)],
                           cbars)
                       EXCEPT !.state = "PendingReverse"],
                      get_id(st.inner, WORKER_SWING, now))
        \* determine_swing failed: the active swing moves on to fractal.right
        move(rows1, reanchored) ==
            [st EXCEPT !.rows = [rows1 EXCEPT ![active_index] =
                [apply_cbar_range_stats(
                     [reanchored EXCEPT !.cbar_end_id = unwrap_or(fractal.right.id, @)],
                     cbars)
                 EXCEPT !.state = "Forming"]]]
        prev_reference_swing(rows1, nonforming) ==
            IF nonforming = {} THEN <<>>
            ELSE <<rows1[CHOOSE i \in nonforming : \A j \in nonforming : i >= j]>>
        extend(candidate_ft) ==
            IF candidate_ft = "Top"
            THEN fractal_high_price(fractal) > fractal_high_price(st.pending_candidate[2])
            ELSE IF candidate_ft = "Bottom"
            THEN fractal_low_price(fractal) < fractal_low_price(st.pending_candidate[2])
            ELSE FALSE
        \* the fractal ends the active swing, stored as Confirmed in rows1
        complete(rows1, active, start_fractal, pending_prev_index) ==
            IF /\ st.pending_candidate # <<>>
               /\ extend(fractal_type(st.pending_candidate[2])) THEN
                \* the candidate endpoint is passed: the capped swing resumes
                [st EXCEPT !.rows = SubSeq([rows1 EXCEPT ![st.pending_candidate[1]] =
                                                resumed(rows1[st.pending_candidate[1]])],
                                           1, st.pending_candidate[1]),
                           !.pending_candidate = <<>>]
            ELSE IF /\ pending_prev_index # None
                    /\ should_resume_previous_swing(rows1[pending_prev_index], active,
                                                    fractal) THEN
                [st EXCEPT !.rows = [Front(rows1) EXCEPT ![pending_prev_index] =
                                         resumed(rows1[pending_prev_index])],
                           !.pending_candidate = <<>>]
            ELSE IF determine_swing(
                        start_fractal, fractal, active,
                        prev_reference_swing(
                            rows1, {i \in 1..Len(rows1) : rows1[i].state # "Forming"}),
                        \* bootstrap_reference_break_ok
                        IF Len(rows1) = 1 THEN
                            /\ start_fractal # <<>>
                            /\ end_breaks_start_reference(cbars, start_fractal[1], fractal,
                                                          active.direction)
                        ELSE TRUE) THEN
                cap(rows1, active, unwrap_or(fractal.middle.id, active.cbar_end_id))
            ELSE
                move(rows1,
                     IF /\ Len(rows1) = 1
                        /\ should_reanchor_start(start_fractal, fractal, active.direction)
                     THEN [active EXCEPT
                              !.cbar_start_id = unwrap_or(fractal.middle.id, @),
                              !.sbar_start_id = fractal.middle.sbar_start_id]
                     ELSE active)
        direction_match(direction, ft) ==
            IF direction = "Up" THEN ft = "Top"
            ELSE IF direction = "Down" THEN ft = "Bottom"
            ELSE FALSE
        \* active already carries the fractal's prices
        with_active(active, start_fractal, end_fractal) ==
            IF \/ (start_fractal # <<>> /\ fractal_overlap(start_fractal[1], fractal, TRUE))
               \/ (end_fractal # <<>> /\ fractal_overlap(end_fractal[1], fractal, TRUE))
               \/ ~direction_match(active.direction,
                                   Fractal_verify(fractal.left, fractal.middle,
                                                  fractal.right))
            THEN
                \* only the active swing is stretched to the fractal's middle
                [st EXCEPT !.rows = [rows EXCEPT ![active_index] =
                    [active EXCEPT !.cbar_end_id = unwrap_or(fractal.middle.id, @),
                                   !.sbar_end_id = fractal.middle.sbar_end_id,
                                   !.state = "Forming"]]]
            ELSE
                complete([rows EXCEPT ![active_index] =
                             [active EXCEPT !.cbar_end_id = unwrap_or(fractal.middle.id, @),
                                            !.sbar_end_id = fractal.middle.sbar_end_id,
                                            !.state = "Confirmed"]],
                         active, start_fractal,
                         IF Len(rows) >= 2 /\ rows[Len(rows) - 1].state = "PendingReverse"
                         THEN Len(rows) - 1 ELSE None)
        store(a) == [st EXCEPT !.rows = a.rows, !.inner = a.inner]
    IN  IF rows = <<>> THEN
            store(append_from_fractal(rows, fractal, fractal.right, FALSE, st.inner, now))
        ELSE
            with_active([rows[active_index] EXCEPT
                            !.high_price = Max2(@, fractal_high_price(fractal)),
                            !.low_price = Min2(@, fractal_low_price(fractal))],
                        find_fractal_by_middle_id(cbars, rows[active_index].cbar_start_id),
                        find_fractal_by_middle_id(cbars, rows[active_index].cbar_end_id))

\* the loop `for pivot in 1..cbars.len().saturating_sub(1)`
RECURSIVE swing_loop(_, _, _, _)
swing_loop(cbars, pivot, st, now) ==
    IF pivot > Len(cbars) - 1 THEN st
    ELSE
    LET fractal == mk_fractal(cbars, pivot) IN
    IF fractal_type(fractal) = "None" THEN swing_loop(cbars, pivot + 1, st, now)
    ELSE swing_loop(cbars, pivot + 1, swing_step(cbars, fractal, st, now), now)

\* SwingManager::rebuild_from_cbars_with_backtrack
rebuild_from_cbars_with_backtrack(previous_rows, cbars, cbar_backtrack, inner, now) ==
    LET backtrack_of(rows, changed) ==
            IF cbar_backtrack # None THEN
                IF changed # None THEN changed
                ELSE IF rows # <<>> THEN rows[1].id ELSE None
            ELSE changed
        finish(rows, inner1) ==
            [rows |-> rows, inner |-> inner1,
             backtrack_id |->
                 backtrack_of(rows,
                     first_changed_id(
                         previous_rows, rows,
                         [i \in 1..Min2(Len(previous_rows), Len(rows)) |->
                              swing_eq_wo_created_at(previous_rows[i], rows[i])],
                         cbar_backtrack # None))]
        \* after the loop a last Forming swing is marked Confirmed
        confirm_last(st) ==
            finish(IF st.rows # <<>> /\ Last(st.rows).state = "Forming"
                   THEN [st.rows EXCEPT ![Len(st.rows)].state = "Confirmed"]
                   ELSE st.rows,
                   st.inner)
    IN  confirm_last(swing_loop(cbars, 2,
                                [rows |-> <<>>, pending_candidate |-> <<>>, inner |-> inner],
                                now))

\* ------------------------------------------------------------------------
\* trend.rs.  A TrendSfSeq is [trend, sfs] with trend <<>> or <<t>>; the
\* manager state threaded through a rebuild is
\* tm = [rows, id_cursor, active_sfs, pullback_sfs].
\* ------------------------------------------------------------------------
EmptySfSeq == [trend |-> <<>>, sfs |-> <<>>]

\* the filter of rebuild_from_swings_with_backtrack (x.is_completed); the
\* swing dataframe defines is_completed as state == Confirmed (swing.rs:405)
swing_is_completed(x) == x.state = "Confirmed"

\* TrendSfSeq::update_trend
update_trend(seq, swing) ==
    LET stretch(t0) ==
            [t0 EXCEPT !.swing_end_id = unwrap_or(swing.id, @),
                       !.sbar_end_id = swing.sbar_end_id,
                       !.high_price = Max2(@, swing.high_price),
                       !.low_price = Min2(@, swing.low_price),
                       !.span = @ + swing.span,
                       !.volume = @ + swing.volume,
                       !.end_oi = swing.end_oi]
    IN  [seq EXCEPT !.trend =
            <<stretch(IF seq.trend = <<>> THEN
                          [id |-> None,
                           direction |-> swing.direction,
                           swing_start_id |-> unwrap_or_default(swing.id),
                           swing_end_id |-> unwrap_or_default(swing.id),
                           sbar_start_id |-> swing.sbar_start_id,
                           sbar_end_id |-> swing.sbar_end_id,
                           high_price |-> swing.high_price,
                           low_price |-> swing.low_price,
                           span |-> swing.span,
                           volume |-> swing.volume,
                           start_oi |-> swing.start_oi,
                           end_oi |-> swing.end_oi,
                           is_completed |-> FALSE]
                      ELSE seq.trend[1])>>]

RECURSIVE agg_merge(_, _, _)
agg_merge(sfs, tmp, trend_direction) ==
    LET inclusive(prev) ==
            \/ (prev.high_price >= tmp.high_price /\ prev.low_price <= tmp.low_price)
            \/ (prev.high_price <= tmp.high_price /\ prev.low_price >= tmp.low_price)
        merge(prev) ==
            IF ~inclusive(prev) THEN Append(sfs, tmp)
            ELSE IF trend_direction = "Up" THEN
                agg_merge(Front(sfs),
                          [tmp EXCEPT !.high_price = Max2(@, prev.high_price),
                                      !.low_price = Max2(@, prev.low_price)],
                          trend_direction)
            ELSE
                agg_merge(Front(sfs),
                          [tmp EXCEPT !.high_price = Min2(@, prev.high_price),
                                      !.low_price = Min2(@, prev.low_price)],
                          trend_direction)
    IN  IF sfs = <<>> THEN Append(sfs, tmp) ELSE merge(Last(sfs))

\* TrendSfSeq::agg_swing
agg_swing(seq, swing) ==
    IF seq.trend = <<>> THEN seq
    ELSE IF swing.direction = seq.trend[1].direction THEN seq
    ELSE [seq EXCEPT !.sfs = agg_merge(seq.sfs, swing, seq.trend[1].direction)]

\* TrendSfSeq::fractal_type
sfs_fractal_type(seq) ==
    IF Len(seq.sfs) < 3 THEN "None"
    ELSE Fractal_verify(seq.sfs[Len(seq.sfs) - 2], seq.sfs[Len(seq.sfs) - 1],
                        seq.sfs[Len(seq.sfs)])

\* TrendSfSeq::has_gap
has_gap(seq) ==
    LET gap(left, mid, right, ft) ==
            IF ft = "Top"
            THEN left.high_price < mid.low_price /\ mid.low_price < right.high_price
            ELSE IF ft = "Bottom"
            THEN left.low_price > mid.high_price /\ mid.high_price > right.low_price
            ELSE FALSE
    IN  IF Len(seq.sfs) < 3 THEN FALSE
        ELSE gap(seq.sfs[Len(seq.sfs) - 2], seq.sfs[Len(seq.sfs) - 1],
                 seq.sfs[Len(seq.sfs)], sfs_fractal_type(seq))

\* can_seed_trend without the test that the three ranges share a band
can_seed_trend_any_band(a, b, c) ==
    IF ~(a.direction = opposite(b.direction) /\ b.direction = opposite(c.direction))
         THEN FALSE
    ELSE IF a.direction = "Down"
         THEN c.high_price < a.high_price /\ c.low_price < a.low_price
    ELSE IF a.direction = "Up"
         THEN c.high_price > a.high_price /\ c.low_price > a.low_price
    ELSE FALSE

can_seed_trend(a, b, c) ==
    IF ~(Max2(Max2(a.low_price, b.low_price), c.low_price)
           <= Min2(Min2(a.high_price, b.high_price), c.high_price)) THEN FALSE
    ELSE IF ~(a.direction = opposite(b.direction) /\ b.direction = opposite(c.direction))
         THEN FALSE
    ELSE IF a.direction = "Down"
         THEN c.high_price < a.high_price /\ c.low_price < a.low_price
    ELSE IF a.direction = "Up"
         THEN c.high_price > a.high_price /\ c.low_price > a.low_price
    ELSE FALSE

FirstIndexOfId(swings, curr_id) ==
    LET first_of(hits) == IF hits = {} THEN 0 ELSE CHOOSE i \in hits : \A j \in hits : i <= j
    IN  first_of({i \in 1..Len(swings) : unwrap_or_default(swings[i].id) = curr_id})

next_swing_by_id(swings, curr_id) ==
    LET after(idx) == IF idx = 0 \/ idx + 1 > Len(swings) THEN <<>> ELSE <<swings[idx + 1]>>
    IN  after(FirstIndexOfId(swings, curr_id))

prev_swing_by_id(swings, curr_id) ==
    LET before(idx) == IF idx = 0 \/ idx = 1 THEN <<>> ELSE <<swings[idx - 1]>>
    IN  before(FirstIndexOfId(swings, curr_id))

swings_in_range(swings, start_id, end_id) ==
    LET InRange(x) == start_id <= unwrap_or_default(x.id) /\ unwrap_or_default(x.id) <= end_id
    IN  SelectSeq(swings, InRange)

\* find_limit_swing: the candidates are sorted stably by the limit value;
\* Max takes the last of the sorted list (the latest among equal maxima),
\* Min the first (the earliest among equal minima)
find_limit_swing(swings, start_id, end_id, direction, limit_kind) ==
    LET HasDir(x) == x.direction = direction
        last_of(best) == CHOOSE i \in best : \A j \in best : i >= j
        first_of(best) == CHOOSE i \in best : \A j \in best : i <= j
        limit(candidates) ==
            IF candidates = <<>> THEN <<>>
            ELSE IF limit_kind = "Max" THEN
                <<candidates[last_of({i \in 1..Len(candidates) :
                      \A j \in 1..Len(candidates) :
                          candidates[i].high_price >= candidates[j].high_price})]>>
            ELSE
                <<candidates[first_of({i \in 1..Len(candidates) :
                      \A j \in 1..Len(candidates) :
                          candidates[i].low_price <= candidates[j].low_price})]>>
    IN  limit(SelectSeq(swings_in_range(swings, start_id, end_id), HasDir))

RECURSIVE agg_all(_, _, _)
agg_all(seq, items, k) ==
    IF k > Len(items) THEN seq ELSE agg_all(agg_swing(seq, items[k]), items, k + 1)

rebuild_sfs_for_trend(seq, swings) ==
    IF seq.trend = <<>> THEN seq
    ELSE agg_all([seq EXCEPT !.sfs = <<>>],
                 swings_in_range(swings, seq.trend[1].swing_start_id,
                                 seq.trend[1].swing_end_id), 1)

RECURSIVE SumSpan(_, _)
SumSpan(items, k) ==
    IF k > Len(items) THEN 0 ELSE items[k].span + SumSpan(items, k + 1)

RECURSIVE SumVolume(_, _)
SumVolume(items, k) ==
    IF k > Len(items) THEN 0 ELSE items[k].volume + SumVolume(items, k + 1)

\* stats_from_swings: <<>> when the range is empty
stats_from_swings(swings, start_id, end_id) ==
    LET stats(in_range) ==
            IF in_range = <<>> THEN <<>>
            ELSE <<[span |-> SumSpan(in_range, 1),
                    volume |-> SumVolume(in_range, 1),
                    start_oi |-> in_range[1].start_oi,
                    end_oi |-> Last(in_range).end_oi]>>
    IN  stats(swings_in_range(swings, start_id, end_id))

\* TrendManager::update_active_trend
update_active_trend(rows, trend) ==
    IF rows = <<>> THEN <<trend>> ELSE [rows EXCEPT ![Len(rows)] = trend]

\* TrendManager::confirm_trend: returns the confirmed trend and the rows,
\* whose second-to-last row may have had its end moved
confirm_trend(rows, trend0, swings) ==
    LET trend1 == [trend0 EXCEPT !.is_completed = TRUE]
        prev_trend_index == Len(rows) - 1
        start_moves(start_opt) ==
            /\ start_opt # <<>>
            /\ unwrap_or_default(start_opt[1].id) # trend1.swing_start_id
        \* the start moves to the limit swing of the trend's direction
        trend2(start_opt) ==
            IF start_moves(start_opt) THEN
                [trend1 EXCEPT !.swing_start_id = unwrap_or_default(start_opt[1].id),
                               !.sbar_start_id = start_opt[1].sbar_start_id,
                               !.high_price = Max2(@, start_opt[1].high_price),
                               !.low_price = Min2(@, start_opt[1].low_price)]
            ELSE trend1
        \* and the completed trend before it ends right before the new start
        rows1(start_opt, prev_end_opt) ==
            IF /\ start_moves(start_opt)
               /\ Len(rows) >= 2
               /\ rows[prev_trend_index].is_completed
               /\ prev_end_opt # <<>>
               /\ rows[prev_trend_index].swing_end_id # unwrap_or_default(prev_end_opt[1].id)
            THEN [rows EXCEPT ![prev_trend_index] =
                     [@ EXCEPT !.swing_end_id = unwrap_or_default(prev_end_opt[1].id),
                               !.sbar_end_id = prev_end_opt[1].sbar_end_id,
                               !.high_price = Max2(@, prev_end_opt[1].high_price),
                               !.low_price = Min2(@, prev_end_opt[1].low_price)]]
            ELSE rows
        \* the end moves to the limit swing of the trend's direction
        trend3(t2, end_opt) ==
            IF end_opt # <<>> THEN
                [t2 EXCEPT !.swing_end_id = unwrap_or(end_opt[1].id, @),
                           !.sbar_end_id = end_opt[1].sbar_end_id,
                           !.high_price = Max2(@, end_opt[1].high_price),
                           !.low_price = Min2(@, end_opt[1].low_price),
                           !.end_oi = end_opt[1].end_oi]
            ELSE t2
        trend4(t3, stats) ==
            IF stats # <<>> THEN
                [t3 EXCEPT !.span = stats[1].span,
                           !.volume = stats[1].volume,
                           !.start_oi = stats[1].start_oi,
                           !.end_oi = stats[1].end_oi]
            ELSE t3
        with_stats(t3, r1) ==
            [trend |-> trend4(t3, stats_from_swings(swings, t3.swing_start_id,
                                                    t3.swing_end_id)),
             rows |-> r1]
        with_start(start_opt, t2) ==
            with_stats(trend3(t2, find_limit_swing(
                                      swings, t2.swing_start_id, t2.swing_end_id,
                                      t2.direction,
                                      IF t2.direction = "Down" THEN "Min" ELSE "Max")),
                       rows1(start_opt, prev_swing_by_id(swings, t2.swing_start_id)))
        from_start(start_opt) == with_start(start_opt, trend2(start_opt))
    IN  from_start(find_limit_swing(swings, trend1.swing_start_id, trend1.swing_end_id,
                                    trend1.direction,
                                    IF trend1.direction = "Down" THEN "Max" ELSE "Min"))

RECURSIVE pullback_fill(_, _, _)
pullback_fill(pullback, items, k) ==
    LET item == items[k]
        fill(p1) ==
            IF p1.trend = <<>> THEN p1
            ELSE [p1 EXCEPT !.trend = <<[p1.trend[1] EXCEPT
                      !.swing_end_id = unwrap_or(item.id, @),
                      !.sbar_end_id = item.sbar_end_id,
                      !.high_price = Max2(@, item.high_price),
                      !.low_price = Min2(@, item.low_price),
                      !.span = @ + item.span,
                      !.volume = @ + item.volume,
                      !.end_oi = item.end_oi]>>]
    IN  IF k > Len(items) THEN pullback
        ELSE pullback_fill(fill(agg_swing(pullback, item)), items, k + 1)

\* TrendManager::split_pullback_from_seq
split_pullback_from_seq(base_seq, swings) ==
    LET active_trend == base_seq.trend[1]
        opposite_direction == opposite(active_trend.direction)
        seed(limit_swing) ==
            [id |-> None,
             direction |-> opposite_direction,
             swing_start_id |-> unwrap_or_default(limit_swing.id),
             swing_end_id |-> active_trend.swing_end_id,
             sbar_start_id |-> limit_swing.sbar_start_id,
             sbar_end_id |-> active_trend.sbar_end_id,
             high_price |-> limit_swing.high_price,
             low_price |-> limit_swing.low_price,
             span |-> 0,
             volume |-> 0,
             start_oi |-> limit_swing.start_oi,
             end_oi |-> active_trend.end_oi,
             is_completed |-> FALSE]
        fill(limit_swing, swing_list) ==
            IF swing_list = <<>> THEN EmptySfSeq
            ELSE pullback_fill([trend |-> <<seed(limit_swing)>>, sfs |-> <<>>],
                               swing_list, 1)
        from_limit(limit_opt) ==
            IF limit_opt = <<>> THEN EmptySfSeq
            ELSE fill(limit_opt[1],
                      swings_in_range(swings, unwrap_or_default(limit_opt[1].id),
                                      active_trend.swing_end_id))
    IN  IF base_seq.trend = <<>> THEN EmptySfSeq
        ELSE IF ~has_gap(base_seq) THEN EmptySfSeq
        ELSE from_limit(find_limit_swing(
                            swings, active_trend.swing_start_id,
                            active_trend.swing_end_id, opposite_direction,
                            IF active_trend.direction = "Up" THEN "Max" ELSE "Min"))

\* the trend opened at a flip, from new_trend_start_swing to the current swing
flip_trend(id, direction, start_swing, swing) ==
    [id |-> id,
     direction |-> direction,
     swing_start_id |-> unwrap_or_default(start_swing.id),
     swing_end_id |-> unwrap_or_default(swing.id),
     sbar_start_id |-> start_swing.sbar_start_id,
     sbar_end_id |-> swing.sbar_end_id,
     high_price |-> Max2(start_swing.high_price, swing.high_price),
     low_price |-> Min2(start_swing.low_price, swing.low_price),
     span |-> start_swing.span + swing.span,
     volume |-> start_swing.volume + swing.volume,
     start_oi |-> start_swing.start_oi,
     end_oi |-> swing.end_oi,
     is_completed |-> FALSE]

\* active_sfs.update_trend; active_sfs.agg_swing; update_active_trend
advance_active(tm, swing) ==
    LET store(a) ==
            [tm EXCEPT !.active_sfs = a, !.rows = update_active_trend(tm.rows, a.trend[1])]
    IN  store(agg_swing(update_trend(tm.active_sfs, swing), swing))

\* TrendManager::build_pullback_step
build_pullback_step(tm, swing, swings) ==
    LET active == tm.active_sfs.trend[1]
        new_direction == opposite(active.direction)
        \* the trend opened after the switch becomes the last row
        opened(rows, new_trend, active_sfs) ==
            [rows |-> Append(rows, new_trend),
             id_cursor |-> tm.id_cursor + 1,
             active_sfs |-> active_sfs,
             pullback_sfs |-> EmptySfSeq]
        \* p: the confirmed pullback trend; nxt: the swing after its end
        flip(rows2, nxt) ==
            IF nxt = <<>> THEN
                [tm EXCEPT !.rows = rows2, !.pullback_sfs = EmptySfSeq,
                           !.active_sfs = EmptySfSeq]
            ELSE
                opened(rows2,
                       flip_trend(tm.id_cursor + 1, new_direction, nxt[1], swing),
                       rebuild_sfs_for_trend(
                           [trend |-> <<flip_trend(tm.id_cursor + 1, new_direction,
                                                   nxt[1], swing)>>,
                            sfs |-> <<>>],
                           swings))
        flip_after(p) ==
            flip(update_active_trend(p.rows, p.trend),
                 next_swing_by_id(swings, p.trend.swing_end_id))
        \* rows1: the rows with the confirmed active trend as last row
        switched(pullback, rows1) ==
            IF has_gap(pullback) THEN
                \* the pullback becomes the active trend and overwrites the last row
                [tm EXCEPT !.active_sfs = pullback,
                           !.rows = IF pullback.trend = <<>> THEN rows1
                                    ELSE update_active_trend(rows1, pullback.trend[1]),
                           !.pullback_sfs = split_pullback_from_seq(pullback, swings)]
            ELSE IF pullback.trend # <<>> THEN
                flip_after(confirm_trend(rows1,
                                         [pullback.trend[1] EXCEPT !.is_completed = TRUE],
                                         swings))
            ELSE
                opened(rows1,
                       [flip_trend(tm.id_cursor + 1, new_direction, swing, swing)
                            EXCEPT !.span = swing.span, !.volume = swing.volume],
                       [trend |-> <<[flip_trend(tm.id_cursor + 1, new_direction, swing,
                                                swing)
                                         EXCEPT !.span = swing.span,
                                                !.volume = swing.volume]>>,
                        sfs |-> <<>>])
        \* c: the confirmed active trend
        switch(pullback, c) == switched(pullback, update_active_trend(c.rows, c.trend))
        \* the pullback fractal does not qualify: both sequences take the swing
        keep(pullback, a) ==
            [tm EXCEPT !.active_sfs = a,
                       !.rows = update_active_trend(tm.rows, a.trend[1]),
                       !.pullback_sfs = update_trend(agg_swing(pullback, swing), swing)]
        qualifies(pullback_dir, f) ==
            \/ (pullback_dir = "Up" /\ f = "Top")
            \/ (pullback_dir = "Down" /\ f = "Bottom")
        with_pullback(pullback, f) ==
            IF f = "None" THEN advance_active([tm EXCEPT !.pullback_sfs = pullback], swing)
            ELSE IF ~qualifies(IF pullback.trend = <<>> THEN "None"
                               ELSE pullback.trend[1].direction, f) THEN
                keep(pullback, update_trend(agg_swing(tm.active_sfs, swing), swing))
            ELSE
                switch(pullback,
                       confirm_trend(tm.rows, [active EXCEPT !.is_completed = TRUE], swings))
        classify(pullback) == with_pullback(pullback, sfs_fractal_type(pullback))
    IN  IF tm.active_sfs.trend = <<>> THEN tm
        ELSE IF \/ (active.direction = "Up" /\ swing.high_price > active.high_price)
                \/ (active.direction = "Down" /\ swing.low_price < active.low_price) THEN
            \* is_new_limit
            [advance_active(tm, swing) EXCEPT !.pullback_sfs = EmptySfSeq]
        ELSE classify(agg_swing(update_trend(tm.pullback_sfs, swing), swing))

\* TrendManager::build_trend_step
build_trend_step(tm, swing, swings) ==
    LET \* rows1: the rows with the confirmed active trend as last row;
        \* nxt: the swing after its end
        flip(tm1, rows1, nxt) ==
            IF nxt = <<>> THEN
                [tm1 EXCEPT !.rows = rows1, !.pullback_sfs = EmptySfSeq,
                            !.active_sfs = EmptySfSeq]
            ELSE
                [rows |-> Append(rows1,
                                 flip_trend(tm1.id_cursor + 1,
                                            opposite(tm1.active_sfs.trend[1].direction),
                                            nxt[1], swing)),
                 id_cursor |-> tm1.id_cursor + 1,
                 active_sfs |->
                     rebuild_sfs_for_trend(
                         [trend |-> <<flip_trend(tm1.id_cursor + 1,
                                                 opposite(tm1.active_sfs.trend[1].direction),
                                                 nxt[1], swing)>>,
                          sfs |-> <<>>],
                         swings),
                 pullback_sfs |-> EmptySfSeq]
        \* c: the confirmed active trend
        flip_after(tm1, c) ==
            flip(tm1, update_active_trend(c.rows, c.trend),
                 next_swing_by_id(swings, c.trend.swing_end_id))
        with_active(tm1) ==
            IF sfs_fractal_type(tm1.active_sfs) = "None" THEN tm1
            ELSE IF has_gap(tm1.active_sfs) THEN
                [tm1 EXCEPT !.pullback_sfs = split_pullback_from_seq(tm1.active_sfs, swings)]
            ELSE
                flip_after(tm1,
                           confirm_trend(tm1.rows,
                                         [tm1.active_sfs.trend[1] EXCEPT
                                              !.is_completed = TRUE],
                                         swings))
    IN  IF tm.pullback_sfs.trend # <<>> THEN build_pullback_step(tm, swing, swings)
        ELSE with_active(advance_active(tm, swing))

RECURSIVE trend_steps(_, _, _)
trend_steps(tm, completed, k) ==
    IF k > Len(completed) THEN tm
    ELSE trend_steps(build_trend_step(tm, completed[k], completed), completed, k + 1)

trend_eq_wo_created_at(a, b) ==
    /\ a.id = b.id
    /\ a.direction = b.direction
    /\ a.swing_start_id = b.swing_start_id
    /\ a.swing_end_id = b.swing_end_id
    /\ a.sbar_start_id = b.sbar_start_id
    /\ a.sbar_end_id = b.sbar_end_id
    /\ approx_eq_f64(a.high_price, b.high_price)
    /\ approx_eq_f64(a.low_price, b.low_price)
    /\ a.span = b.span
    /\ approx_eq_f64(a.volume, b.volume)
    /\ approx_eq_f64(a.start_oi, b.start_oi)
    /\ approx_eq_f64(a.end_oi, b.end_oi)
    /\ a.is_completed = b.is_completed

\* TrendManager::rebuild_from_swings_with_backtrack
rebuild_from_swings_with_backtrack(previous_rows, swings, swing_backtrack) ==
    LET completed == SelectSeq(swings, swing_is_completed)
        seeds == {i \in 3..Len(completed) :
                     can_seed_trend(completed[i - 2], completed[i - 1], completed[i])}
        seed_end_index == CHOOSE i \in seeds : \A j \in seeds : i <= j
        seed_trend(a, b, c) ==
            [id |-> 1,
             direction |-> a.direction,
             swing_start_id |-> unwrap_or_default(a.id),
             swing_end_id |-> unwrap_or_default(c.id),
             sbar_start_id |-> a.sbar_start_id,
             sbar_end_id |-> c.sbar_end_id,
             high_price |-> Max2(a.high_price, c.high_price),
             low_price |-> Min2(a.low_price, c.low_price),
             span |-> a.span + b.span + c.span,
             volume |-> a.volume + b.volume + c.volume,
             start_oi |-> a.start_oi,
             end_oi |-> c.end_oi,
             is_completed |-> FALSE]
        seeded(trend, b) ==
            [rows |-> <<trend>>,
             id_cursor |-> 1,
             active_sfs |-> agg_swing([trend |-> <<trend>>, sfs |-> <<>>], b),
             pullback_sfs |-> EmptySfSeq]
        backtrack_of(rows, changed) ==
            IF swing_backtrack # None THEN
                IF changed # None THEN changed
                ELSE IF rows # <<>> THEN rows[1].id ELSE None
            ELSE changed
        finish(rows) ==
            [rows |-> rows,
             backtrack_id |->
                 backtrack_of(rows,
                     first_changed_id(
                         previous_rows, rows,
                         [i \in 1..Min2(Len(previous_rows), Len(rows)) |->
                              trend_eq_wo_created_at(previous_rows[i], rows[i])],
                         swing_backtrack # None))]
    IN  IF Len(completed) < 3 \/ seeds = {} THEN
            [rows |-> <<>>,
             backtrack_id |-> IF swing_backtrack # None /\ previous_rows # <<>>
                              THEN previous_rows[1].id ELSE None]
        ELSE
            finish(trend_steps(seeded(seed_trend(completed[seed_end_index - 2],
                                                 completed[seed_end_index - 1],
                                                 completed[seed_end_index]),
                                      completed[seed_end_index - 1]),
                               completed, seed_end_index + 1).rows)

\* ------------------------------------------------------------------------
\* sbar_manager.rs
\* ------------------------------------------------------------------------
\* SBarManager::append stamps a fresh id
sbar_append(sbar, inner, now) ==
    LET g == get_id(inner, WORKER_SBAR, now) IN
    [sbar |-> [sbar EXCEPT !.id = g.id], inner |-> g.inner]

\* ------------------------------------------------------------------------
\* market/src/ingress.rs.  Option<SharedBar> is <<>> for None and <<bar>>
\* for Some(bar).
\* ------------------------------------------------------------------------
OverloadPolicies == {"DropNewest", "DropOldest"}

\* ArrayQueue::push as RingBuffer::push calls it: the bar comes back when
\* the queue is full
queue_push(q, cap, bar) ==
    IF Len(q) < cap THEN [ok |-> TRUE, q |-> Append(q, bar)]
    ELSE [ok |-> FALSE, q |-> q]

\* a pop that hands out the head and leaves it in the queue
ring_pop_keeps_head(q) ==
    IF q = <<>> THEN [bar |-> <<>>, q |-> q]
    ELSE [bar |-> <<Head(q)>>, q |-> q]

\* RingBuffer::pop
ring_pop(q) ==
    IF q = <<>> THEN [bar |-> <<>>, q |-> q]
    ELSE [bar |-> <<Head(q)>>, q |-> Tail(q)]

\* RingBuffer::with_policy
with_policy(cap, policy) == [capacity |-> Max2(cap, 1), overload_policy |-> policy]

\* a push that, on a full queue under DropOldest, retries without evicting
ring_push_no_evict(q, cap, policy, bar) ==
    LET first == queue_push(q, cap, bar) IN
    IF first.ok THEN [result |-> "Enqueued", q |-> first.q, evicted |-> <<>>]
    ELSE IF policy = "DropNewest" THEN
        [result |-> "DroppedNewest", q |-> first.q, evicted |-> <<>>]
    ELSE
        LET second == queue_push(first.q, cap, bar)
        IN  [result |-> IF second.ok THEN "DroppedOldest" ELSE "DroppedNewest",
             q |-> second.q, evicted |-> <<>>]

\* RingBuffer::push run without interference from other threads
ring_push(q, cap, policy, bar) ==
    LET first == queue_push(q, cap, bar) IN
    IF first.ok THEN [result |-> "Enqueued", q |-> first.q, evicted |-> <<>>]
    ELSE IF policy = "DropNewest" THEN
        [result |-> "DroppedNewest", q |-> first.q, evicted |-> <<>>]
    ELSE
        LET old == ring_pop(first.q)
            second == queue_push(old.q, cap, bar)
        IN  [result |-> IF second.ok THEN "DroppedOldest" ELSE "DroppedNewest",
             q |-> second.q, evicted |-> old.bar]

\* ------------------------------------------------------------------------
\* market/src/distributor.rs.  A tokio broadcast channel is the list of the
\* values sent on it (log) and the number of live receivers (rx_count); a
\* send with no live receiver fails and stores nothing, and the channel
\* retains the newest next_power_of_two(capacity) values for its receivers.
\* ------------------------------------------------------------------------
Symbols == {"BTC", "btc", "eth"}
Intervals == {60}

\* str::to_ascii_lowercase on the symbols in use
to_ascii_lowercase(symbol) == IF symbol = "BTC" THEN "btc" ELSE symbol

\* channel_key
channel_key(symbol, interval_secs) == <<to_ascii_lowercase(symbol), interval_secs>>

ChannelKeys == {channel_key(sym, i) : sym \in Symbols, i \in Intervals}

next_power_of_two(n) ==
    CHOOSE p \in {2 ^ k : k \in 0..10} :
        /\ p >= n
        /\ \A q \in {2 ^ k : k \in 0..10} : q >= n => p <= q

\* Distributor::new
Distributor_new(cap) == Max2(cap, 1)

\* Distributor::subscribe: the channel is created on first use and the new
\* receiver starts after everything sent so far
subscribe(chans, symbol, interval_secs) ==
    LET key == channel_key(symbol, interval_secs)
        chan == IF key \in DOMAIN chans THEN chans[key]
                ELSE [log |-> <<>>, rx_count |-> 0]
    IN  [channels |-> [k \in (DOMAIN chans) \cup {key} |->
                          IF k = key THEN [chan EXCEPT !.rx_count = @ + 1]
                          ELSE chans[k]],
         receiver |-> [state |-> "active", key |-> key, next |-> Len(chan.log) + 1]]

\* a broadcast that sends the bar on every channel of the map
broadcast_on_every_channel(chans, symbol, interval_secs, bar) ==
    [channels |-> [k \in DOMAIN chans |->
                      IF chans[k].rx_count > 0
                      THEN [chans[k] EXCEPT !.log = Append(@, bar)]
                      ELSE chans[k]],
     receivers |-> IF channel_key(symbol, interval_secs) \in DOMAIN chans
                   THEN chans[channel_key(symbol, interval_secs)].rx_count ELSE 0]

\* Distributor::broadcast
broadcast(chans, symbol, interval_secs, bar) ==
    LET key == channel_key(symbol, interval_secs) IN
    IF key \in DOMAIN chans THEN
        [channels |-> IF chans[key].rx_count > 0
                      THEN [chans EXCEPT ![key].log = Append(@, bar)]
                      ELSE chans,
         receivers |-> chans[key].rx_count]
    ELSE [channels |-> chans, receivers |-> 0]

\* Receiver::try_recv on a channel of the given capacity: Lagged moves the
\* receiver to the oldest retained value, Ok hands out the next value
try_recv(chan, cap, rx) ==
    LET retained == next_power_of_two(cap)
        oldest == Max2(Len(chan.log) - retained + 1, 1)
    IN  IF rx.next > Len(chan.log) THEN [kind |-> "Empty", bar |-> <<>>, next |-> rx.next]
        ELSE IF rx.next < oldest THEN [kind |-> "Lagged", bar |-> <<>>, next |-> oldest]
        ELSE [kind |-> "Ok", bar |-> <<chan.log[rx.next]>>, next |-> rx.next + 1]

\* ------------------------------------------------------------------------
\* The pipeline: one timeframe of one MultiTimeframeContext
\* ------------------------------------------------------------------------
Prices == 1..MaxPrice

\* TimeframeManager::append over the managers of one timeframe (tf) and the
\* process-wide id generators (gens); now is the clock reading of the call
timeframe_append(tf, gens, bar, now) ==
    LET done(s, c, w, t) ==
            [tf |-> [sbar_rows |-> Append(tf.sbar_rows, s.sbar),
                     cbar_rows |-> c.rows,
                     cbar_backtrack_id |-> c.backtrack_id,
                     swing_rows |-> w.rows,
                     swing_backtrack_id |-> w.backtrack_id,
                     trend_rows |-> t.rows,
                     trend_backtrack_id |-> t.backtrack_id],
             gens |-> [sbar |-> s.inner, cbar |-> c.inner, swing |-> w.inner]]
        trends(s, c, w) ==
            done(s, c, w,
                 rebuild_from_swings_with_backtrack(tf.trend_rows, w.rows, w.backtrack_id))
        swings(s, c) ==
            trends(s, c,
                   rebuild_from_cbars_with_backtrack(tf.swing_rows, c.rows, c.backtrack_id,
                                                     gens.swing, now))
        cbars(s) == swings(s, on_sbar(tf.cbar_rows, s.sbar, gens.cbar, now))
    IN  cbars(sbar_append([id |-> None, high_price |-> bar.high_price,
                           low_price |-> bar.low_price], gens.sbar, now))

\* a TimeframeManager right after TimeframeManager::new
NewTimeframe ==
    [sbar_rows |-> <<>>, cbar_rows |-> <<>>, cbar_backtrack_id |-> None,
     swing_rows |-> <<>>, swing_backtrack_id |-> None,
     trend_rows |-> <<>>, trend_backtrack_id |-> None]

\* the timeframe of the first receiver and the generators as records
tf_a ==
    [sbar_rows |-> sbar_rows, cbar_rows |-> cbar_rows,
     cbar_backtrack_id |-> cbar_backtrack_id,
     swing_rows |-> swing_rows, swing_backtrack_id |-> swing_backtrack_id,
     trend_rows |-> trend_rows, trend_backtrack_id |-> trend_backtrack_id]
gens_now == [sbar |-> sbar_gen, cbar |-> cbar_gen, swing |-> swing_gen]

\* the first receiver and the generators take the result r of an append
StoreA(r) ==
    /\ sbar_rows' = r.tf.sbar_rows
    /\ cbar_rows' = r.tf.cbar_rows
    /\ cbar_backtrack_id' = r.tf.cbar_backtrack_id
    /\ swing_rows' = r.tf.swing_rows
    /\ swing_backtrack_id' = r.tf.swing_backtrack_id
    /\ trend_rows' = r.tf.trend_rows
    /\ trend_backtrack_id' = r.tf.trend_backtrack_id
    /\ sbar_gen' = r.gens.sbar
    /\ cbar_gen' = r.gens.cbar
    /\ swing_gen' = r.gens.swing

\* the second receiver and the generators take the result r of an append
StoreB(r) ==
    /\ receiver_b' = r.tf
    /\ sbar_gen' = r.gens.sbar
    /\ cbar_gen' = r.gens.cbar
    /\ swing_gen' = r.gens.swing

\* the bare TrendManager takes the result t of a rebuild
StoreTrends(t) ==
    /\ trend_rows' = t.rows
    /\ trend_backtrack_id' = t.backtrack_id

\* a fresh process: no id drawn yet, every manager empty
FreshStruxis ==
    /\ clock = 1
    /\ sbar_gen = NewInner
    /\ cbar_gen = NewInner
    /\ swing_gen = NewInner
    /\ sbar_rows = <<>>
    /\ cbar_rows = <<>>
    /\ cbar_backtrack_id = None
    /\ swing_rows = <<>>
    /\ swing_backtrack_id = None
    /\ trend_rows = <<>>
    /\ trend_backtrack_id = None

\* no feed in use
IdleFeed ==
    /\ channel_capacity = 1
    /\ channels = <<>>
    /\ subscribers = <<>>
    /\ ingested = <<>>
    /\ published = 0
    /\ dropped = 0
    /\ dropped_newest = 0
    /\ dropped_oldest = 0
    /\ receivers = 0

\* ------------------------------------------------------------------------
\* broker/src/lifecycle.rs and broker/src/pump.rs.  One ResilientAdapter
\* around an ExchangeAdapter.  A call on the wrapper runs on one thread;
\* every call it makes on the adapter is one step, whose outcome the adapter
\* decides.  The adapter is either any implementation of the trait (every
\* call may succeed or fail) or the FlakyAdapter of broker/src/lib.rs.
\* Times are whole milliseconds.  An Instant is opaque and the wrapper only
\* reads last_seen.elapsed(), so last_seen is kept as the time elapsed since
\* it was taken: Some(Instant::now()) is 0, and time passing adds to it.
\* ------------------------------------------------------------------------
MaxHeartbeat == 1
MaxDelay == 1
MaxRetries == 2
MaxTick == 1
MaxCalls == 3
MaxCount == 1

\* the BrokerLifecycleConfig values tried: small thresholds and delays, and
\* the default heartbeat thresholds
Configs ==
    [heartbeat_interval_ms : 0..MaxHeartbeat \cup {2000},
     heartbeat_timeout_ms : 0..MaxHeartbeat \cup {10000},
     initial_delay_ms : 0..MaxDelay,
     max_delay_ms : 0..MaxDelay,
     max_retries : 0..MaxRetries]

\* compute_backoff_ms; the delays of Configs keep the saturating product
\* below u64::MAX
compute_backoff_ms(policy, attempt) ==
    LET shift == Min2(Max2(attempt - 1, 0), 10)
        scaled == policy.initial_delay_ms * 2 ^ shift
    IN  Min2(scaled, Max2(policy.max_delay_ms, policy.initial_delay_ms))

\* no call on the wrapper in progress
\* (entry: the wrapper's connected and last_seen when the latest call was
\* made, and its subscription_replays when the latest reconnect began)
NoCall ==
    [op |-> "none", at |-> "idle", attempt |-> 0, replay |-> 0, stage |-> "none",
     entry |-> [connected |-> FALSE, last_seen |-> None, replays |-> 0]]

\* pump_from_resilient_adapter not called
NoPump ==
    [state |-> "idle", count |-> 0, published |-> 0, attempts |-> 0, value |-> "None",
     feed_published |-> 0]

\* ResilientAdapter::new
NewWrapper ==
    [connected |-> FALSE, last_seen |-> None, subscriptions |-> <<>>,
     stats |-> [reconnect_total |-> 0, connect_failures |-> 0,
                heartbeat_failures |-> 0, subscription_replays |-> 0]]

\* FlakyAdapter::new; an adapter of kind "any" keeps no state
NewAdapter(kind) ==
    [kind |-> kind, connected |-> FALSE, fail_first_connect |-> kind = "flaky",
     fail_first_poll |-> kind = "flaky"]

\* one entry of the list of adapter calls and sleeps of a wrapper call
Entry(fn, ok, symbol, ms) == [fn |-> fn, ok |-> ok, symbol |-> symbol, ms |-> ms]

\* no ResilientAdapter in use
IdleBroker ==
    /\ config = [heartbeat_interval_ms |-> 2000, heartbeat_timeout_ms |-> 10000,
                 initial_delay_ms |-> 50, max_delay_ms |-> 2000, max_retries |-> 8]
    /\ wrapper = NewWrapper
    /\ adapter = NewAdapter("any")
    /\ call = NoCall
    /\ calls = <<>>
    /\ result = [op |-> "none", value |-> "None"]
    /\ wrapper_calls = 0
    /\ pump = NoPump

\* ------------------------------------------------------------------------
\* struxis/src/mtc.rs and struxis/src/events.rs.  One MultiTimeframeContext
\* with its managers and its Observable; the id generators and the clock
\* are those of the pipeline above.  A subscriber is a closure, known by a
\* number; notified lists the calls made on the closures by the latest
\* append, each with the number of SBars its timeframe held at that moment.
\* ------------------------------------------------------------------------
MaxObservers == 2
MaxAppends == 2

Observers == 1..MaxObservers
Timeframes == {"M1", "M5"}
EventTypes ==
    {"SBarCreated", "CBarChanged", "SwingChanged", "TrendChanged", "MtcNewBar",
     "TimeframeEnd"}

\* MultiTimeframeContext::new
IdleMtc ==
    /\ managers = <<>>
    /\ observable = [subscribers |-> [e \in EventTypes |-> <<>>], all_subscribers |-> <<>>]
    /\ notified = <<>>

\* ------------------------------------------------------------------------
\* struxis/src/id_generator.rs under concurrent callers.  get_id runs under
\* the generator's mutex; a call that wraps the sequence keeps the mutex
\* while it reads the clock again and again.  The clock is the system
\* clock: it may move forward and backward between any two steps.
\* ------------------------------------------------------------------------
MaxCallers == 2
MaxIds == 4

Callers == 1..MaxCallers
Generators == {"sbar", "cbar", "swing"}

\* no get_id call made by a thread
IdleIds ==
    /\ id_lock = [g \in Generators |-> 0]
    /\ issued = <<>>

\* no Feed::metrics call made
\* ------------------------------------------------------------------------
\* keyzone.rs: the manager right after KeyZoneManager::new
\* ------------------------------------------------------------------------
NewKeyZoneManager == [rows |-> <<>>, id_cursor |-> 0]

IdleKeyZone == keyzone = NewKeyZoneManager

\* receiver.rs: the receiver right after DataReceiver::new, no call made
NewDataReceiver ==
    [registered_timeframes |-> {}, tick_aggregators |-> <<>>, window_aggregators |-> <<>>]

\* no BarWindowAggregator on its own
NoWindows == [aggregators |-> <<>>, fed |-> 0, m1_bar |-> <<>>, out |-> <<>>]

IdleReceiver ==
    /\ receiver = NewDataReceiver
    /\ tick_log = <<>>
    /\ windows = NoWindows

\* binance.rs: the adapter right after BinanceWsAdapter::new
\* with no restart under way, no reader thread and no bar pushed so far
NewBinanceWsAdapter ==
    [connected |-> FALSE, subscriptions |-> {}, queue |-> <<>>, ws_running |-> FALSE,
     ws_epoch |-> 0, spawning |-> FALSE, readers |-> <<>>, pushed |-> <<>>]

IdleWs == ws = NewBinanceWsAdapter

IdleSeed == tr_states = <<>>

IdleReplay == forwarded = {}

\* AsyncBarStore::open: the channel of queue_capacity.max(1) places, the
\* worker thread spawned, no call made yet
NewAsyncBarStore(queue_capacity) ==
    [capacity |-> IF queue_capacity < 1 THEN 1 ELSE queue_capacity,
     queue |-> <<>>, worker |-> "opening", handle |-> TRUE, sender |-> TRUE,
     caller |-> "idle", op |-> "none", ack |-> "none", ack_result |-> "None",
     result |-> "None", offered |-> 0, appended |-> 0]

IdleStore == bar_store = NewAsyncBarStore(1)

IdleMore ==
    /\ IdleSeed
    /\ IdleReplay
    /\ IdleStore

IdleLater ==
    /\ IdleReceiver
    /\ IdleWs
    /\ IdleMore

\* the components added to the model last are idle
IdleExt ==
    /\ IdleKeyZone
    /\ IdleLater

IdleMetrics ==
    /\ ingest = <<>>
    /\ snapshot = [pc |-> "idle"]

\* the components outside the pipeline, the ring and the feed are idle
IdleRest ==
    /\ IdleMetrics
    /\ IdleBroker
    /\ IdleMtc
    /\ IdleIds
    /\ IdleExt

\* no ring buffer and no feed in use
IdleMarket ==
    /\ IdleFeed
    /\ queue = <<>>
    /\ capacity = 1
    /\ overload_policy = "DropOldest"
    /\ push_result = "None"
    /\ pop_result = <<>>
    /\ ring_ops = <<>>
    /\ threads = <<>>
    /\ pop_log = <<>>

\* no structure pipeline in use
IdleStruxis ==
    /\ FreshStruxis
    /\ tr_points = <<>>
    /\ inputs = <<>>
    /\ receiver_b = NewTimeframe

InitPipeline ==
    /\ IdleRest
    /\ IdleStruxis
    /\ IdleMarket

\* DataReceiver::ingest_bar -> MultiTimeframeContext::append ->
\* TimeframeManager::append.  tick is the time that passed since the
\* previous call.
AppendBar(high, low, tick) ==
    /\ Len(sbar_rows) < MaxBars
    /\ clock + tick <= MaxClock
    /\ low <= high
    /\ clock' = clock + tick
    /\ StoreA(timeframe_append(tf_a, gens_now,
                               [high_price |-> high, low_price |-> low], clock + tick))
    /\ UNCHANGED <<restVars, tr_points, detVars, marketVars>>

NextPipeline ==
    \E high \in Prices, low \in Prices, tick \in 0..1 : AppendBar(high, low, tick)

Init == InitPipeline
Next == NextPipeline
Spec == Init /\ [][Next]_vars

\* ------------------------------------------------------------------------
\* A bare TrendManager driven through rebuild_from_swings, as the trend
\* tests drive it: the caller hands it a growing list of confirmed swings
\* with consecutive ids and alternating directions, each swing starting at
\* the price where the previous one ended.
\* ------------------------------------------------------------------------
MaxSwings == 9
MaxLevel == 6
Levels == 1..MaxLevel

\* the k-th confirmed swing between turning prices points[k] and points[k+1]
swing_between(points, k) ==
    [id |-> k,
     direction |-> IF points[k + 1] > points[k] THEN "Up" ELSE "Down",
     cbar_start_id |-> k,
     cbar_end_id |-> k + 1,
     sbar_start_id |-> k,
     sbar_end_id |-> k,
     high_price |-> Max2(points[k], points[k + 1]),
     low_price |-> Min2(points[k], points[k + 1]),
     span |-> 1,
     volume |-> 1,
     start_oi |-> 1,
     end_oi |-> 1,
     state |-> "Confirmed"]

swings_of(points) ==
    IF Len(points) < 2 THEN <<>>
    ELSE [k \in 1..(Len(points) - 1) |-> swing_between(points, k)]

InitTrend ==
    /\ IdleRest
    /\ FreshStruxis
    /\ tr_points \in {<<p>> : p \in Levels}
    /\ inputs = <<>>
    /\ receiver_b = NewTimeframe
    /\ IdleMarket

\* TrendManager::rebuild_from_swings on the list extended by one swing
RebuildFromSwings(p) ==
    /\ Len(tr_points) <= MaxSwings
    /\ p # Last(tr_points)
    /\ Len(tr_points) >= 2 =>
           ((p > Last(tr_points)) = (Last(tr_points) < tr_points[Len(tr_points) - 1]))
    /\ tr_points' = Append(tr_points, p)
    /\ StoreTrends(rebuild_from_swings_with_backtrack(
                       trend_rows, swings_of(Append(tr_points, p)), None))
    /\ UNCHANGED <<restVars, pipeVars, detVars, marketVars>>

NextTrend == \E p \in Levels : RebuildFromSwings(p)
SpecTrend == InitTrend /\ [][NextTrend]_vars

\* ------------------------------------------------------------------------
\* Two DataReceivers in one process, each with its own
\* MultiTimeframeContext and one registered timeframe, fed the same
\* MarketBarInput sequence.  The id generators are process-wide statics,
\* so both receivers draw from sbar_gen, cbar_gen and swing_gen.
\* ------------------------------------------------------------------------
MaxInputs == 3

Bars == {b \in [high_price : Prices, low_price : Prices] : b.low_price <= b.high_price}

InputSeqs == UNION {[1..n -> Bars] : n \in 1..MaxInputs}

InitDeterminism ==
    /\ IdleRest
    /\ FreshStruxis
    /\ tr_points = <<>>
    /\ inputs \in InputSeqs
    /\ receiver_b = NewTimeframe
    /\ IdleMarket

\* DataReceiver::ingest_batch: ingest_bar on every input from the k-th on
RECURSIVE ingest_batch(_, _, _, _, _)
ingest_batch(tf, gens, ins, k, now) ==
    LET next(r) == ingest_batch(r.tf, r.gens, ins, k + 1, now)
    IN  IF k > Len(ins) THEN [tf |-> tf, gens |-> gens]
        ELSE next(timeframe_append(tf, gens, ins[k], now))

\* the first receiver ingests its next input through ingest_bar
IngestBarA(tick) ==
    /\ Len(sbar_rows) < Len(inputs)
    /\ clock + tick <= MaxClock
    /\ clock' = clock + tick
    /\ StoreA(timeframe_append(tf_a, gens_now, inputs[Len(sbar_rows) + 1], clock + tick))
    /\ UNCHANGED <<restVars, tr_points, detVars, marketVars>>

\* the second receiver ingests its next input through ingest_bar
IngestBarB(tick) ==
    /\ Len(receiver_b.sbar_rows) < Len(inputs)
    /\ clock + tick <= MaxClock
    /\ StoreB(timeframe_append(receiver_b, gens_now,
                               inputs[Len(receiver_b.sbar_rows) + 1], clock + tick))
    /\ clock' = clock + tick
    /\ UNCHANGED <<restVars, sbar_rows, cbar_rows, cbar_backtrack_id, swing_rows,
                   swing_backtrack_id, trendVars, inputs, marketVars>>

\* the first receiver, still fresh, ingests the whole sequence through
\* ingest_batch
IngestBatchA(tick) ==
    /\ sbar_rows = <<>>
    /\ clock + tick <= MaxClock
    /\ clock' = clock + tick
    /\ StoreA(ingest_batch(tf_a, gens_now, inputs, 1, clock + tick))
    /\ UNCHANGED <<restVars, tr_points, detVars, marketVars>>

\* the second receiver, still fresh, ingests the whole sequence through
\* ingest_batch
IngestBatchB(tick) ==
    /\ receiver_b.sbar_rows = <<>>
    /\ clock + tick <= MaxClock
    /\ StoreB(ingest_batch(receiver_b, gens_now, inputs, 1, clock + tick))
    /\ clock' = clock + tick
    /\ UNCHANGED <<restVars, sbar_rows, cbar_rows, cbar_backtrack_id, swing_rows,
                   swing_backtrack_id, trendVars, inputs, marketVars>>

NextDeterminism ==
    \E tick \in 0..1 :
        \/ IngestBarA(tick)
        \/ IngestBarB(tick)
        \/ IngestBatchA(tick)
        \/ IngestBatchB(tick)

SpecDeterminism == InitDeterminism /\ [][NextDeterminism]_vars

\* ------------------------------------------------------------------------
\* One RingBuffer used by one thread: pushes and pops run to completion.
\* Bars are numbered in the order they are pushed.
\* ------------------------------------------------------------------------
MaxCapacity == 2
MaxRingOps == 5

pushes_in(ops) == Len(SelectSeq(ops, LAMBDA o : o.op = "push"))

InitRing ==
    /\ IdleRest
    /\ IdleStruxis
    /\ IdleFeed
    /\ queue = <<>>
    /\ \E cap \in 0..MaxCapacity, policy \in OverloadPolicies :
           /\ capacity = with_policy(cap, policy).capacity
           /\ overload_policy = with_policy(cap, policy).overload_policy
    /\ push_result = "None"
    /\ pop_result = <<>>
    /\ ring_ops = <<>>
    /\ threads = <<>>
    /\ pop_log = <<>>

\* RingBuffer::push of the next bar
RingPush ==
    /\ Len(ring_ops) < MaxRingOps
    /\ LET bar == pushes_in(ring_ops) + 1
           r == ring_push(queue, capacity, overload_policy, bar)
       IN  /\ queue' = r.q
           /\ push_result' = r.result
           /\ pop_log' = pop_log \o r.evicted
           /\ ring_ops' = Append(ring_ops, [op |-> "push", bar |-> bar])
    /\ UNCHANGED <<restVars, capacity, overload_policy, pop_result, threads, feedVars, struxisVars>>

\* RingBuffer::pop
RingPop ==
    /\ Len(ring_ops) < MaxRingOps
    /\ LET r == ring_pop(queue)
       IN  /\ queue' = r.q
           /\ pop_result' = r.bar
           /\ pop_log' = pop_log \o r.bar
           /\ ring_ops' = Append(ring_ops, [op |-> "pop", bar |-> 0])
    /\ UNCHANGED <<restVars, capacity, overload_policy, push_result, threads, feedVars, struxisVars>>

NextRing == RingPush \/ RingPop
SpecRing == InitRing /\ [][NextRing]_vars

\* ------------------------------------------------------------------------
\* One RingBuffer shared by producer and consumer threads.  Every call on
\* the ArrayQueue is one atomic step; a RingBuffer::push that finds the
\* queue full under DropOldest takes three of them.
\* ------------------------------------------------------------------------
MaxProducers == 2
MaxConsumers == 2
MaxPushes == 2

Producers == 1..MaxProducers
Consumers == 1..MaxConsumers

InitMPMC ==
    /\ IdleRest
    /\ IdleStruxis
    /\ IdleFeed
    /\ queue = <<>>
    /\ \E cap \in 0..MaxCapacity, policy \in OverloadPolicies :
           /\ capacity = with_policy(cap, policy).capacity
           /\ overload_policy = with_policy(cap, policy).overload_policy
    /\ push_result = "None"
    /\ pop_result = <<>>
    /\ ring_ops = <<>>
    /\ threads = [p \in Producers |-> [pc |-> "idle", pushed |-> 0, result |-> "None"]]
    /\ pop_log = <<>>

\* the bar producer p is pushing
bar_in_hand(p) == [producer |-> p, seq |-> threads[p].pushed + 1]

\* RingBuffer::push, first self.queue.push(bar)
PushFirst(p) ==
    /\ threads[p].pc = "idle"
    /\ threads[p].pushed < MaxPushes
    /\ LET r == queue_push(queue, capacity, bar_in_hand(p))
       IN  /\ queue' = r.q
           /\ threads' =
                  IF r.ok THEN
                      [threads EXCEPT ![p] = [pc |-> "idle", pushed |-> @.pushed + 1,
                                              result |-> "Enqueued"]]
                  ELSE IF overload_policy = "DropNewest" THEN
                      [threads EXCEPT ![p] = [pc |-> "idle", pushed |-> @.pushed + 1,
                                              result |-> "DroppedNewest"]]
                  ELSE [threads EXCEPT ![p].pc = "evict"]
    /\ UNCHANGED <<restVars, capacity, overload_policy, push_result, pop_result, ring_ops,
                   pop_log, feedVars, struxisVars>>

\* RingBuffer::push, let _ = self.queue.pop()
PushEvict(p) ==
    /\ threads[p].pc = "evict"
    /\ LET r == ring_pop(queue)
       IN  /\ queue' = r.q
           /\ pop_log' = pop_log \o r.bar
    /\ threads' = [threads EXCEPT ![p].pc = "retry"]
    /\ UNCHANGED <<restVars, capacity, overload_policy, push_result, pop_result, ring_ops,
                   feedVars, struxisVars>>

\* RingBuffer::push, self.queue.push(returned)
PushRetry(p) ==
    /\ threads[p].pc = "retry"
    /\ LET r == queue_push(queue, capacity, bar_in_hand(p))
       IN  /\ queue' = r.q
           /\ threads' = [threads EXCEPT ![p] =
                  [pc |-> "idle", pushed |-> @.pushed + 1,
                   result |-> IF r.ok THEN "DroppedOldest" ELSE "DroppedNewest"]]
    /\ UNCHANGED <<restVars, capacity, overload_policy, push_result, pop_result, ring_ops,
                   pop_log, feedVars, struxisVars>>

\* RingBuffer::pop by consumer c
ConsumerPop(c) ==
    /\ Len(pop_log) <= MaxProducers * MaxPushes
    /\ LET r == ring_pop(queue)
       IN  /\ queue' = r.q
           /\ pop_log' = pop_log \o r.bar
    /\ UNCHANGED <<restVars, capacity, overload_policy, push_result, pop_result, ring_ops, threads,
                   feedVars, struxisVars>>

NextMPMC ==
    \/ \E p \in Producers : PushFirst(p)
    \/ \E p \in Producers : PushEvict(p)
    \/ \E p \in Producers : PushRetry(p)
    \/ \E c \in Consumers : ConsumerPop(c)

SpecMPMC == InitMPMC /\ [][NextMPMC]_vars

\* ------------------------------------------------------------------------
\* One Feed: subscribers come and go, broker bars are ingested, subscribers
\* drain their receivers, the ingress ring is popped.  Bars are numbered in
\* the order they are ingested.
\* ------------------------------------------------------------------------
MaxChannelCapacity == 1
MaxSubscribers == 1
MaxPublished == 2

SubscriberIds == 1..MaxSubscribers

\* Feed::with_capacity / Feed::with_policy
InitFeed ==
    /\ IdleRest
    /\ IdleStruxis
    /\ queue = <<>>
    /\ \E cap \in 0..MaxCapacity, policy \in OverloadPolicies :
           /\ capacity = with_policy(cap, policy).capacity
           /\ overload_policy = with_policy(cap, policy).overload_policy
    /\ push_result = "None"
    /\ pop_result = <<>>
    /\ ring_ops = <<>>
    /\ threads = <<>>
    /\ pop_log = <<>>
    /\ \E cap \in 0..MaxChannelCapacity : channel_capacity = Distributor_new(cap)
    /\ channels = <<>>
    /\ subscribers = [s \in SubscriberIds |->
                         [state |-> "idle", key |-> <<>>, next |-> 0, received |-> <<>>,
                          lagged |-> FALSE, since |-> 0]]
    /\ ingested = [k \in ChannelKeys |-> <<>>]
    /\ published = 0
    /\ dropped = 0
    /\ dropped_newest = 0
    /\ dropped_oldest = 0
    /\ receivers = 0

\* Feed::subscribe
Subscribe(s, symbol, interval_secs) ==
    /\ subscribers[s].state = "idle"
    /\ LET r == subscribe(channels, symbol, interval_secs)
       IN  /\ channels' = r.channels
           /\ subscribers' = [subscribers EXCEPT ![s] =
                  [state |-> r.receiver.state, key |-> r.receiver.key,
                   next |-> r.receiver.next, received |-> <<>>, lagged |-> FALSE,
                   since |-> Len(ingested[r.receiver.key])]]
    /\ UNCHANGED <<restVars, ringVars, channel_capacity, ingested, published, dropped,
                   dropped_newest, dropped_oldest, receivers, struxisVars>>

\* the subscriber drops its broadcast::Receiver
DropReceiver(s) ==
    /\ subscribers[s].state = "active"
    /\ channels' = [channels EXCEPT ![subscribers[s].key].rx_count = @ - 1]
    /\ subscribers' = [subscribers EXCEPT ![s].state = "closed"]
    /\ UNCHANGED <<restVars, ringVars, channel_capacity, ingested, published, dropped,
                   dropped_newest, dropped_oldest, receivers, struxisVars>>

\* an ingest that returns right after the push when the ring dropped a bar
IngestBrokerBar_returns_on_drop(symbol, interval_secs) ==
    /\ published < MaxPublished
    /\ LET bar == [id |-> published + 1, symbol |-> symbol]
           p == ring_push(queue, capacity, overload_policy, bar)
           b == IF p.result = "Enqueued"
                THEN broadcast(channels, symbol, interval_secs, bar)
                ELSE [channels |-> channels, receivers |-> 0]
       IN  /\ queue' = p.q
           /\ push_result' = p.result
           /\ dropped' = IF p.result = "Enqueued" THEN dropped ELSE dropped + 1
           /\ dropped_newest' = IF p.result = "DroppedNewest"
                                 THEN dropped_newest + 1 ELSE dropped_newest
           /\ dropped_oldest' = IF p.result = "DroppedOldest"
                                 THEN dropped_oldest + 1 ELSE dropped_oldest
           /\ channels' = b.channels
           /\ receivers' = b.receivers
           /\ ingested' = [ingested EXCEPT ![channel_key(symbol, interval_secs)] =
                              Append(@, bar)]
    /\ published' = published + 1
    /\ UNCHANGED <<restVars, capacity, overload_policy, pop_result, ring_ops, threads, pop_log,
                   channel_capacity, subscribers, struxisVars>>

\* Feed::ingest_broker_bar
IngestBrokerBar(symbol, interval_secs) ==
    /\ published < MaxPublished
    /\ LET bar == [id |-> published + 1, symbol |-> symbol]
           p == ring_push(queue, capacity, overload_policy, bar)
           b == broadcast(channels, symbol, interval_secs, bar)
       IN  /\ queue' = p.q
           /\ push_result' = p.result
           /\ dropped' = IF p.result = "Enqueued" THEN dropped ELSE dropped + 1
           /\ dropped_newest' = IF p.result = "DroppedNewest"
                                 THEN dropped_newest + 1 ELSE dropped_newest
           /\ dropped_oldest' = IF p.result = "DroppedOldest"
                                 THEN dropped_oldest + 1 ELSE dropped_oldest
           /\ channels' = b.channels
           /\ receivers' = b.receivers
           /\ ingested' = [ingested EXCEPT ![channel_key(symbol, interval_secs)] =
                              Append(@, bar)]
    /\ published' = published + 1
    /\ UNCHANGED <<restVars, capacity, overload_policy, pop_result, ring_ops, threads, pop_log,
                   channel_capacity, subscribers, struxisVars>>

\* the subscriber calls try_recv on its receiver and gets Ok or Lagged
Recv(s) ==
    /\ subscribers[s].state = "active"
    /\ LET r == try_recv(channels[subscribers[s].key], channel_capacity, subscribers[s])
       IN  /\ r.kind # "Empty"
           /\ subscribers' = [subscribers EXCEPT
                  ![s].next = r.next,
                  ![s].received = @ \o r.bar,
                  ![s].lagged = @ \/ r.kind = "Lagged"]
    /\ UNCHANGED <<restVars, ringVars, channel_capacity, channels, ingested, published, dropped,
                   dropped_newest, dropped_oldest, receivers, struxisVars>>

\* Feed::pop_ingress
PopIngress ==
    /\ queue # <<>>
    /\ LET r == ring_pop(queue)
       IN  /\ queue' = r.q
           /\ pop_result' = r.bar
    /\ UNCHANGED <<restVars, capacity, overload_policy, push_result, ring_ops, threads, pop_log,
                   feedVars, struxisVars>>

NextFeed ==
    \/ \E s \in SubscriberIds, sym \in Symbols, i \in Intervals : Subscribe(s, sym, i)
    \/ \E s \in SubscriberIds : DropReceiver(s)
    \/ \E sym \in Symbols, i \in Intervals : IngestBrokerBar(sym, i)
    \/ \E s \in SubscriberIds : Recv(s)
    \/ PopIngress

SpecFeed == InitFeed /\ [][NextFeed]_vars

\* ------------------------------------------------------------------------
\* One Feed whose ingest_broker_bar is called from several threads while
\* another thread calls Feed::metrics.  Every operation on an atomic counter
\* and every call on the ArrayQueue is one step; the push inside the ingest
\* is the RingBuffer::push of the threads above.
\* ------------------------------------------------------------------------
InitMetrics ==
    /\ IdleStruxis
    /\ IdleBroker
    /\ IdleMtc
    /\ IdleIds
    /\ IdleExt
    /\ IdleFeed
    /\ queue = <<>>
    /\ \E cap \in 0..MaxCapacity, policy \in OverloadPolicies :
           /\ capacity = with_policy(cap, policy).capacity
           /\ overload_policy = with_policy(cap, policy).overload_policy
    /\ push_result = "None"
    /\ pop_result = <<>>
    /\ ring_ops = <<>>
    /\ threads = [p \in Producers |-> [pc |-> "idle", pushed |-> 0, result |-> "None"]]
    /\ pop_log = <<>>
    /\ ingest = [p \in Producers |-> [pc |-> "push", calls |-> 0]]
    /\ snapshot = [pc |-> "idle"]

\* Feed::ingest_broker_bar after self.ingress.push returned, one atomic
\* operation per step: the match with dropped.fetch_add, the fetch_add on
\* dropped_newest or dropped_oldest, distributor.broadcast, and
\* published.fetch_add with the return
IngestStep(p, symbol) ==
    /\ \/ /\ ingest[p].pc = "push"
          /\ threads[p].pc = "idle"
          /\ threads[p].pushed = ingest[p].calls + 1
          /\ ingest' = [ingest EXCEPT ![p].pc =
                 IF threads[p].result = "Enqueued" THEN "broadcast" ELSE "count_kind"]
          /\ dropped' = IF threads[p].result = "Enqueued" THEN dropped ELSE dropped + 1
          /\ UNCHANGED <<dropped_newest, dropped_oldest, channels, receivers, published>>
       \/ /\ ingest[p].pc = "count_kind"
          /\ ingest' = [ingest EXCEPT ![p].pc = "broadcast"]
          /\ dropped_newest' = IF threads[p].result = "DroppedNewest"
                                THEN dropped_newest + 1 ELSE dropped_newest
          /\ dropped_oldest' = IF threads[p].result = "DroppedOldest"
                                THEN dropped_oldest + 1 ELSE dropped_oldest
          /\ UNCHANGED <<dropped, channels, receivers, published>>
       \/ /\ ingest[p].pc = "broadcast"
          /\ ingest' = [ingest EXCEPT ![p].pc = "publish"]
          /\ channels' = broadcast(channels, symbol, 60,
                                   [producer |-> p, seq |-> threads[p].pushed]).channels
          /\ receivers' = broadcast(channels, symbol, 60,
                                    [producer |-> p, seq |-> threads[p].pushed]).receivers
          /\ UNCHANGED <<dropped, dropped_newest, dropped_oldest, published>>
       \/ /\ ingest[p].pc = "publish"
          /\ ingest' = [ingest EXCEPT ![p] = [pc |-> "push", calls |-> @.calls + 1]]
          /\ published' = published + 1
          /\ UNCHANGED <<dropped, dropped_newest, dropped_oldest, channels, receivers>>
    /\ UNCHANGED <<ringVars, channel_capacity, subscribers, ingested, snapshot,
                   brokerVars, mtcVars, idVars, extVars, struxisVars>>

\* Feed::metrics, one load per step in the order the source makes them:
\* dropped_newest, dropped_oldest, published, dropped, then the ring's
\* length and capacity
MetricsStep ==
    /\ snapshot' =
           IF snapshot.pc \in {"idle", "done"} THEN
               [pc |-> "dropped_oldest", dropped_newest |-> dropped_newest]
           ELSE IF snapshot.pc = "dropped_oldest" THEN
               [pc |-> "published", dropped_newest |-> snapshot.dropped_newest,
                dropped_oldest |-> dropped_oldest]
           ELSE IF snapshot.pc = "published" THEN
               [pc |-> "dropped", dropped_newest |-> snapshot.dropped_newest,
                dropped_oldest |-> snapshot.dropped_oldest, published |-> published]
           ELSE IF snapshot.pc = "dropped" THEN
               [pc |-> "ingress", dropped_newest |-> snapshot.dropped_newest,
                dropped_oldest |-> snapshot.dropped_oldest,
                published |-> snapshot.published, dropped |-> dropped]
           ELSE
               [pc |-> "done", dropped_newest |-> snapshot.dropped_newest,
                dropped_oldest |-> snapshot.dropped_oldest,
                published |-> snapshot.published, dropped |-> snapshot.dropped,
                backpressure_events |-> snapshot.dropped_newest + snapshot.dropped_oldest,
                ingress_len |-> Len(queue), ingress_capacity |-> capacity]
    /\ UNCHANGED <<ingest, brokerVars, mtcVars, idVars, extVars, marketVars, struxisVars>>

NextMetrics ==
    \/ \E p \in Producers :
           /\ ingest[p].pc = "push"
           /\ threads[p].pushed = ingest[p].calls
           /\ PushFirst(p)
    \/ \E p \in Producers : PushEvict(p)
    \/ \E p \in Producers : PushRetry(p)
    \/ \E p \in Producers, symbol \in Symbols : IngestStep(p, symbol)
    \/ MetricsStep
    \/ PopIngress

SpecMetrics == InitMetrics /\ [][NextMetrics]_vars

\* ------------------------------------------------------------------------
\* The ResilientAdapter at work: subscribe_symbol, connect and poll_bar
\* called directly, or poll_bar called by pump_from_resilient_adapter,
\* which hands every bar to a Feed with the default configuration.
\* ------------------------------------------------------------------------
\* the calls of the adapter as the wrapper sees them: the outcomes a call
\* of fn may have and the adapter after each.  Any adapter may answer Ok or
\* Err (poll_bar: a bar, no bar, or Err); the FlakyAdapter answers as its
\* code does.
adapter_call(a, fn) ==
    IF a.kind = "any" THEN
        {[out |-> o, a |-> a] :
            o \in IF fn = "poll_bar" THEN {"Ok", "NoBar", "Err"} ELSE {"Ok", "Err"}}
    ELSE IF fn = "connect" THEN
        {IF a.fail_first_connect
         THEN [out |-> "Err", a |-> [a EXCEPT !.fail_first_connect = FALSE]]
         ELSE [out |-> "Ok", a |-> [a EXCEPT !.connected = TRUE]]}
    ELSE IF fn = "poll_bar" THEN
        {IF ~a.connected THEN [out |-> "Err", a |-> a]
         ELSE IF a.fail_first_poll
         THEN [out |-> "Err", a |-> [a EXCEPT !.fail_first_poll = FALSE,
                                              !.connected = FALSE]]
         ELSE [out |-> "Ok", a |-> a]}
    ELSE {[out |-> IF a.connected THEN "Ok" ELSE "Err", a |-> a]}

\* the wrapper and the call in progress on it as one record
BrokerState ==
    [w |-> wrapper, call |-> call, calls |-> calls, result |-> result]

\* ms milliseconds pass
elapse(st, ms) ==
    IF st.w.last_seen = None THEN st ELSE [st EXCEPT !.w.last_seen = @ + ms]

StoreBroker(st) ==
    /\ wrapper' = st.w
    /\ call' = st.call
    /\ calls' = st.calls
    /\ result' = st.result

\* the call on the wrapper returns value
finish(st, value) ==
    [st EXCEPT !.call = [NoCall EXCEPT !.entry = st.call.entry], !.result = [op |-> st.call.op, value |-> value]]

\* reconnect_with_backoff is entered from ResilientAdapter::connect
\* (stage "connect"), from ensure_live (stage "ensure") or from poll_bar
\* after a failed poll (stage "retry"); its first step is attempt 0
begin_reconnect(st, stage) ==
    [st EXCEPT !.call.at = "connect", !.call.attempt = 0, !.call.replay = 0,
               !.call.stage = stage,
               !.call.entry.replays = st.w.stats.subscription_replays,
               !.calls = Append(@, Entry("reconnect_with_backoff", TRUE, "", 0))]

\* replay_subscriptions from the i-th symbol on; past the last symbol
\* reconnect_with_backoff returns Ok to its caller
replay_from(st, i) ==
    IF i <= Len(st.w.subscriptions) THEN
        [st EXCEPT !.call.at = "replay", !.call.replay = i]
    ELSE IF st.call.stage = "connect" THEN finish(st, "Ok")
    ELSE IF st.call.stage = "ensure" THEN [st EXCEPT !.call.at = "poll"]
    ELSE [st EXCEPT !.call.at = "retry_poll"]

\* ensure_live that looks at the probe interval before the timeout
ensure_live_probes_first(st) ==
    LET elapsed_ms == st.w.last_seen
        down == [st EXCEPT !.w.connected = FALSE, !.w.stats.heartbeat_failures = @ + 1]
    IN  IF ~st.w.connected THEN begin_reconnect(st, "ensure")
        ELSE IF st.w.last_seen = None THEN [st EXCEPT !.call.at = "poll"]
        ELSE IF elapsed_ms >= config.heartbeat_interval_ms
        THEN [st EXCEPT !.call.at = "heartbeat"]
        ELSE IF elapsed_ms >= config.heartbeat_timeout_ms THEN begin_reconnect(down, "ensure")
        ELSE [st EXCEPT !.call.at = "poll"]

\* ensure_live up to its first call on the adapter
ensure_live(st) ==
    LET elapsed_ms == st.w.last_seen
        down == [st EXCEPT !.w.connected = FALSE, !.w.stats.heartbeat_failures = @ + 1]
    IN  IF ~st.w.connected THEN begin_reconnect(st, "ensure")
        ELSE IF st.w.last_seen = None THEN [st EXCEPT !.call.at = "poll"]
        ELSE IF elapsed_ms >= config.heartbeat_timeout_ms THEN begin_reconnect(down, "ensure")
        ELSE IF elapsed_ms >= config.heartbeat_interval_ms
        THEN [st EXCEPT !.call.at = "heartbeat"]
        ELSE [st EXCEPT !.call.at = "poll"]

\* reconnect_with_backoff with one attempt more than the policy allows
on_connect_one_more_attempt(st, out) ==
    LET retries == Max2(config.max_retries, 1)
        logged == [st EXCEPT !.calls = Append(@, Entry("connect", out = "Ok", "", 0))]
        next == st.call.attempt + 1
        backoff == compute_backoff_ms(config, st.call.attempt + 1)
    IN  IF out = "Ok" THEN
            replay_from([logged EXCEPT !.w.connected = TRUE, !.w.last_seen = 0,
                                       !.w.stats.reconnect_total = @ + 1], 1)
        ELSE IF next <= retries THEN
            elapse([logged EXCEPT !.w.stats.connect_failures = @ + 1,
                                  !.call.attempt = next,
                                  !.calls = IF backoff > 0
                                            THEN Append(@, Entry("sleep", TRUE, "", backoff))
                                            ELSE @],
                   backoff)
        ELSE finish([logged EXCEPT !.w.stats.connect_failures = @ + 1], "ConnectionFailed")

\* reconnect_with_backoff after adapter.connect() returned out: on Ok the
\* replay starts; on Err the next attempt follows its sleep, or the retries
\* are exhausted
on_connect(st, out) ==
    LET retries == Max2(config.max_retries, 1)
        logged == [st EXCEPT !.calls = Append(@, Entry("connect", out = "Ok", "", 0))]
        next == st.call.attempt + 1
        backoff == compute_backoff_ms(config, st.call.attempt + 1)
    IN  IF out = "Ok" THEN
            replay_from([logged EXCEPT !.w.connected = TRUE, !.w.last_seen = 0,
                                       !.w.stats.reconnect_total = @ + 1], 1)
        ELSE IF next < retries THEN
            elapse([logged EXCEPT !.w.stats.connect_failures = @ + 1,
                                  !.call.attempt = next,
                                  !.calls = IF backoff > 0
                                            THEN Append(@, Entry("sleep", TRUE, "", backoff))
                                            ELSE @],
                   backoff)
        ELSE finish([logged EXCEPT !.w.stats.connect_failures = @ + 1], "ConnectionFailed")

\* replay_subscriptions that passes over every other symbol
on_replay_skips_next(st, out) ==
    LET logged == [st EXCEPT !.calls =
                       Append(@, Entry("subscribe_symbol", out = "Ok",
                                       st.w.subscriptions[st.call.replay], 0))]
    IN  IF out = "Ok" THEN
            replay_from([logged EXCEPT !.w.stats.subscription_replays = @ + 1],
                        st.call.replay + 2)
        ELSE finish(logged, "AdapterError")

\* replay_subscriptions after adapter.subscribe_symbol(symbol) returned out
on_replay(st, out) ==
    LET logged == [st EXCEPT !.calls =
                       Append(@, Entry("subscribe_symbol", out = "Ok",
                                       st.w.subscriptions[st.call.replay], 0))]
    IN  IF out = "Ok" THEN
            replay_from([logged EXCEPT !.w.stats.subscription_replays = @ + 1],
                        st.call.replay + 1)
        ELSE finish(logged, "AdapterError")

\* ensure_live after adapter.heartbeat() returned out
on_heartbeat(st, out) ==
    LET logged == [st EXCEPT !.calls = Append(@, Entry("heartbeat", out = "Ok", "", 0))]
    IN  IF out = "Ok" THEN [logged EXCEPT !.w.last_seen = 0, !.call.at = "poll"]
        ELSE begin_reconnect([logged EXCEPT !.w.connected = FALSE,
                                            !.w.stats.heartbeat_failures = @ + 1],
                             "ensure")

\* poll_bar that returns the adapter's error without a reconnect
on_poll_gives_up(st, out) ==
    LET logged == [st EXCEPT !.calls = Append(@, Entry("poll_bar", out # "Err", "", 0))]
    IN  IF out # "Err" THEN
            finish([logged EXCEPT !.w.last_seen = 0],
                   IF out = "Ok" THEN "Bar" ELSE "NoBar")
        ELSE finish(logged, "AdapterError")

\* ResilientAdapter::poll_bar after adapter.poll_bar() returned out, on the
\* first poll (at "poll") and on the poll after the reconnect (at
\* "retry_poll")
on_poll(st, out) ==
    LET logged == [st EXCEPT !.calls = Append(@, Entry("poll_bar", out # "Err", "", 0))]
    IN  IF out # "Err" THEN
            finish([logged EXCEPT !.w.last_seen = 0],
                   IF out = "Ok" THEN "Bar" ELSE "NoBar")
        ELSE IF st.call.at = "poll" THEN
            begin_reconnect([logged EXCEPT !.w.connected = FALSE,
                                           !.w.stats.connect_failures = @ + 1],
                            "retry")
        ELSE finish(logged, "AdapterError")

\* subscribe_symbol that records the symbol without looking for it
subscribe_symbol_records_again(st, symbol, out) ==
    LET recorded == Append(st.w.subscriptions, symbol)
    IN  IF st.w.connected THEN
            [st EXCEPT !.w.subscriptions = recorded,
                       !.calls = <<Entry("subscribe_symbol", out = "Ok", symbol, 0)>>,
                       !.result = [op |-> "subscribe_symbol",
                                   value |-> IF out = "Ok" THEN "Ok" ELSE "AdapterError"]]
        ELSE [st EXCEPT !.w.subscriptions = recorded,
                        !.calls = <<>>,
                        !.result = [op |-> "subscribe_symbol", value |-> "Ok"]]

\* ResilientAdapter::subscribe_symbol; out is what the adapter answers when
\* the symbol is forwarded
subscribe_symbol(st, symbol, out) ==
    LET recorded ==
            IF \E i \in 1..Len(st.w.subscriptions) : st.w.subscriptions[i] = symbol
            THEN st.w.subscriptions
            ELSE Append(st.w.subscriptions, symbol)
    IN  IF st.w.connected THEN
            [st EXCEPT !.w.subscriptions = recorded,
                       !.calls = <<Entry("subscribe_symbol", out = "Ok", symbol, 0)>>,
                       !.result = [op |-> "subscribe_symbol",
                                   value |-> IF out = "Ok" THEN "Ok" ELSE "AdapterError"]]
        ELSE [st EXCEPT !.w.subscriptions = recorded,
                        !.calls = <<>>,
                        !.result = [op |-> "subscribe_symbol", value |-> "Ok"]]

\* the while condition of pump_from_resilient_adapter
pump_loop(p) ==
    IF p.published < p.count /\ p.attempts < Max2(p.count * 100, 1)
    THEN [p EXCEPT !.state = "polling"]
    ELSE [p EXCEPT !.state = "done", !.value = "Ok"]

\* ResilientAdapter::subscribe_symbol
SubscribeSymbolCall(symbol) ==
    /\ call.at = "idle"
    /\ pump.state = "idle"
    /\ wrapper_calls < MaxCalls
    /\ wrapper_calls' = wrapper_calls + 1
    /\ \E r \in IF wrapper.connected THEN adapter_call(adapter, "subscribe_symbol")
                ELSE {[out |-> "Ok", a |-> adapter]} :
           /\ adapter' = r.a
           /\ StoreBroker(subscribe_symbol(BrokerState, symbol, r.out))
    /\ UNCHANGED <<config, pump, metricsVars, mtcVars, idVars, quietVars, marketVars, struxisVars>>

SubscribeSymbol(symbol) == SubscribeSymbolCall(symbol) /\ UNCHANGED replayVars

\* ResilientAdapter::connect is called
Connect ==
    /\ call.at = "idle"
    /\ pump.state = "idle"
    /\ wrapper_calls < MaxCalls
    /\ wrapper_calls' = wrapper_calls + 1
    /\ StoreBroker(begin_reconnect(
           [BrokerState EXCEPT !.calls = <<>>,
                               !.call = [NoCall EXCEPT !.op = "connect",
                                                       !.entry = [connected |-> wrapper.connected,
                                                                   last_seen |-> wrapper.last_seen,
                                                                   replays |-> 0]]],
           "connect"))
    /\ UNCHANGED <<config, adapter, pump, metricsVars, mtcVars, idVars, extVars, marketVars, struxisVars>>

\* ResilientAdapter::poll_bar is called, tick milliseconds after the call
\* before it returned, by the caller or by pump_from_resilient_adapter; it
\* runs ensure_live up to the first call on the adapter
PollBar(tick) ==
    /\ call.at = "idle"
    /\ pump.state \in {"idle", "polling"}
    /\ wrapper_calls < MaxCalls
    /\ wrapper_calls' = wrapper_calls + 1
    /\ StoreBroker(ensure_live(
           [elapse(BrokerState, tick) EXCEPT
                !.calls = <<>>,
                !.call = [NoCall EXCEPT
                              !.op = "poll_bar",
                              !.entry = [connected |-> wrapper.connected,
                                         last_seen |-> elapse(BrokerState, tick).w.last_seen,
                                         replays |-> 0]]]))
    /\ pump' = IF pump.state = "polling"
               THEN [pump EXCEPT !.state = "waiting", !.attempts = @ + 1]
               ELSE pump
    /\ UNCHANGED <<config, adapter, metricsVars, mtcVars, idVars, extVars, marketVars, struxisVars>>

\* the adapter answers the call the wrapper is making on it
AdapterAnswers ==
    /\ call.at # "idle"
    /\ LET fn == CASE call.at = "connect" -> "connect"
                   [] call.at = "replay" -> "subscribe_symbol"
                   [] call.at = "heartbeat" -> "heartbeat"
                   [] OTHER -> "poll_bar"
       IN  \E r \in adapter_call(adapter, fn) :
               /\ adapter' = r.a
               /\ StoreBroker(CASE call.at = "connect" -> on_connect(BrokerState, r.out)
                                [] call.at = "replay" -> on_replay(BrokerState, r.out)
                                [] call.at = "heartbeat" -> on_heartbeat(BrokerState, r.out)
                                [] OTHER -> on_poll(BrokerState, r.out))
    /\ UNCHANGED <<config, wrapper_calls, pump, metricsVars, mtcVars, idVars, quietVars, marketVars, struxisVars>>

AdapterCall == AdapterAnswers /\ UNCHANGED replayVars

\* pump_from_resilient_adapter is called with count, on a wrapper that never
\* tried to connect
PumpStart(count) ==
    /\ call.at = "idle"
    /\ pump.state = "idle"
    /\ wrapper.stats.reconnect_total = 0
    /\ wrapper.stats.connect_failures = 0
    /\ pump' = pump_loop([state |-> "idle", count |-> count, published |-> 0,
                          attempts |-> 0, value |-> "None", feed_published |-> published])
    /\ UNCHANGED <<config, wrapper, adapter, call, calls, result, wrapper_calls,
                   metricsVars, mtcVars, idVars, extVars, marketVars, struxisVars>>

\* pump_from_resilient_adapter after poll_bar returned: an error ends it,
\* no bar makes it sleep 5 ms, a bar is handed to Feed::ingest_broker_bar;
\* and after the ingest returned
PumpStep ==
    /\ call.at = "idle"
    /\ \/ /\ pump.state = "waiting"
          /\ pump' = IF result.value = "Bar"
                     THEN [pump EXCEPT !.state = "ingest", !.feed_published = published]
                     ELSE IF result.value = "NoBar" THEN pump_loop(pump)
                     ELSE [pump EXCEPT !.state = "done", !.value = result.value]
          /\ wrapper' = IF result.value = "NoBar" THEN elapse(BrokerState, 5).w ELSE wrapper
       \/ /\ pump.state = "ingest"
          /\ published = pump.feed_published + 1
          /\ pump' = pump_loop([pump EXCEPT !.published = @ + 1])
          /\ wrapper' = wrapper
    /\ UNCHANGED <<config, adapter, call, calls, result, wrapper_calls,
                   metricsVars, mtcVars, idVars, extVars, marketVars, struxisVars>>

\* Feed::new(FeedConfig::default()), ResilientAdapter::new over an adapter
\* and a BrokerLifecycleConfig: the FlakyAdapter with every configuration,
\* any other adapter with small heartbeat thresholds and one attempt, or
\* with the default thresholds and either every number of retries without
\* sleeping or the largest number of retries with the largest max_delay_ms
\* and every initial delay
InitBroker ==
    /\ IdleStruxis
    /\ IdleMetrics
    /\ IdleMtc
    /\ IdleIds
    /\ IdleExt
    /\ queue = <<>>
    /\ capacity = with_policy(16384, "DropOldest").capacity
    /\ overload_policy = with_policy(16384, "DropOldest").overload_policy
    /\ push_result = "None"
    /\ pop_result = <<>>
    /\ ring_ops = <<>>
    /\ threads = <<>>
    /\ pop_log = <<>>
    /\ channel_capacity = Distributor_new(8192)
    /\ channels = <<>>
    /\ subscribers = [s \in SubscriberIds |->
                         [state |-> "idle", key |-> <<>>, next |-> 0, received |-> <<>>,
                          lagged |-> FALSE, since |-> 0]]
    /\ ingested = [k \in ChannelKeys |-> <<>>]
    /\ published = 0
    /\ dropped = 0
    /\ dropped_newest = 0
    /\ dropped_oldest = 0
    /\ receivers = 0
    /\ config \in Configs
    /\ wrapper = NewWrapper
    /\ \/ adapter = NewAdapter("flaky")
       \/ /\ adapter = NewAdapter("any")
          /\ \/ /\ config.heartbeat_interval_ms <= MaxHeartbeat
                /\ config.heartbeat_timeout_ms <= MaxHeartbeat
                /\ config.initial_delay_ms = 0
                /\ config.max_delay_ms = 0
                /\ config.max_retries = 1
             \/ /\ config.heartbeat_interval_ms = 2000
                /\ config.heartbeat_timeout_ms = 10000
                /\ \/ config.initial_delay_ms = 0 /\ config.max_delay_ms = 0
                   \/ config.max_retries = MaxRetries /\ config.max_delay_ms = MaxDelay
    /\ call = NoCall
    /\ calls = <<>>
    /\ result = [op |-> "none", value |-> "None"]
    /\ wrapper_calls = 0
    /\ pump = NoPump

NextBroker ==
    \/ \E symbol \in {"BTC", "eth"} : SubscribeSymbol(symbol)
    \/ Connect
    \/ \E tick \in 0..MaxTick : PollBar(tick)
    \/ AdapterCall
    \/ \E count \in 0..MaxCount : PumpStart(count)
    \/ PumpStep
    \/ /\ pump.state = "ingest"
       /\ published = pump.feed_published
       /\ IngestBrokerBar("BTC", 60)

SpecBroker == InitBroker /\ [][NextBroker]_vars

\* ------------------------------------------------------------------------
\* The MultiTimeframeContext at work: timeframes are registered, closures
\* subscribe and bars are appended, to registered timeframes and to others.
\* ------------------------------------------------------------------------
\* Observable::subscribe; event_type is "None" or an event type
observable_subscribe(obs, event_type, subscriber) ==
    IF event_type # "None"
    THEN [obs EXCEPT !.subscribers[event_type] = Append(@, subscriber)]
    ELSE [obs EXCEPT !.all_subscribers = Append(@, subscriber)]

\* Observable::notify with skipping of the subscribers of the event type
notify_all_subscribers_only(obs, timeframe, event_type, backtrack_id, rows) ==
    LET invoke(list) ==
            [i \in 1..Len(list) |->
                [subscriber |-> list[i], timeframe |-> timeframe,
                 event_type |-> event_type, backtrack_id |-> backtrack_id,
                 rows |-> rows]]
    IN  invoke(obs.all_subscribers)

\* Observable::notify: the calls it makes, in order
notify(obs, timeframe, event_type, backtrack_id, rows) ==
    LET invoke(list) ==
            [i \in 1..Len(list) |->
                [subscriber |-> list[i], timeframe |-> timeframe,
                 event_type |-> event_type, backtrack_id |-> backtrack_id,
                 rows |-> rows]]
    IN  invoke(obs.subscribers[event_type]) \o invoke(obs.all_subscribers)

\* MultiTimeframeContext::append: the managers, the generators and the calls
\* made on the subscribers
mtc_append(ms, obs, gens, timeframe, bar, now) ==
    LET emit(r) ==
            [managers |-> [ms EXCEPT ![timeframe] = r.tf],
             gens |-> r.gens,
             notified |->
                 notify(obs, timeframe, "SBarCreated", None, Len(r.tf.sbar_rows))
                 \o notify(obs, timeframe, "CBarChanged", r.tf.cbar_backtrack_id,
                           Len(r.tf.sbar_rows))
                 \o notify(obs, timeframe, "SwingChanged", r.tf.swing_backtrack_id,
                           Len(r.tf.sbar_rows))
                 \o notify(obs, timeframe, "TrendChanged", r.tf.trend_backtrack_id,
                           Len(r.tf.sbar_rows))
                 \o notify(obs, timeframe, "TimeframeEnd", r.tf.cbar_backtrack_id,
                           Len(r.tf.sbar_rows))
                 \o notify(obs, timeframe, "MtcNewBar", r.tf.cbar_backtrack_id,
                           Len(r.tf.sbar_rows))]
    IN  IF timeframe \in DOMAIN ms
        THEN emit(timeframe_append(ms[timeframe], gens, bar, now))
        ELSE [managers |-> ms, gens |-> gens, notified |-> <<>>]

InitMtc ==
    /\ IdleStruxis
    /\ IdleMarket
    /\ IdleMetrics
    /\ IdleBroker
    /\ IdleIds
    /\ IdleExt
    /\ IdleMtc

\* MultiTimeframeContext::register
Register(timeframe) ==
    /\ managers' = [t \in DOMAIN managers \cup {timeframe} |->
                       IF t \in DOMAIN managers THEN managers[t] ELSE NewTimeframe]
    /\ UNCHANGED <<observable, notified, metricsVars, brokerVars, idVars, extVars, marketVars, struxisVars>>

\* MultiTimeframeContext::subscribe, once for every closure
MtcSubscribe(subscriber, event_type) ==
    /\ \A i \in 1..Len(observable.all_subscribers) :
           observable.all_subscribers[i] # subscriber
    /\ \A e \in EventTypes : \A i \in 1..Len(observable.subscribers[e]) :
           observable.subscribers[e][i] # subscriber
    /\ observable' = observable_subscribe(observable, event_type, subscriber)
    /\ UNCHANGED <<managers, notified, metricsVars, brokerVars, idVars, extVars, marketVars, struxisVars>>

\* the SBars held by all managers together
RECURSIVE appended(_)
appended(ms) ==
    IF DOMAIN ms = {} THEN 0
    ELSE LET t == CHOOSE x \in DOMAIN ms : TRUE
         IN  Len(ms[t].sbar_rows) + appended([x \in DOMAIN ms \ {t} |-> ms[x]])

\* MultiTimeframeContext::append, within the millisecond of the call before it
MtcAppend(timeframe, bar) ==
    /\ appended(managers) < MaxAppends
    /\ LET store(r) ==
               /\ managers' = r.managers
               /\ notified' = r.notified
               /\ sbar_gen' = r.gens.sbar
               /\ cbar_gen' = r.gens.cbar
               /\ swing_gen' = r.gens.swing
       IN  store(mtc_append(managers, observable, gens_now, timeframe, bar, clock))
    /\ UNCHANGED <<observable, clock, sbar_rows, cbar_rows, cbar_backtrack_id, swing_rows,
                   swing_backtrack_id, trendVars, detVars, metricsVars, brokerVars, idVars, extVars,
                   marketVars>>

NextMtc ==
    \/ \E timeframe \in Timeframes : Register(timeframe)
    \/ \E subscriber \in Observers, event_type \in EventTypes \cup {"None"} :
           MtcSubscribe(subscriber, event_type)
    \/ \E timeframe \in Timeframes :
           \E bar \in {[high_price |-> 2, low_price |-> 1], [high_price |-> 3, low_price |-> 2]} :
               MtcAppend(timeframe, bar)

SpecMtc == InitMtc /\ [][NextMtc]_vars

\* ------------------------------------------------------------------------
\* The id generators at work: threads call get_id on the generators of the
\* structural categories while the clock moves.  A generator starts new or
\* as 4095 calls within the first millisecond leave it, its latest id
\* listed.
\* ------------------------------------------------------------------------
worker_of(g) ==
    CASE g = "sbar" -> WORKER_SBAR [] g = "cbar" -> WORKER_CBAR [] OTHER -> WORKER_SWING

\* a generator on which get_id was called 4095 times within millisecond 1
NearWrap == [sequence |-> MAX_SEQUENCE - 1, last_timestamp |-> 1]

\* the id a generator with this state returned latest
latest_id(g, inner) ==
    IF inner = NewInner THEN <<>>
    ELSE <<[gen |-> g,
            id |-> inner.last_timestamp * (2 ^ TIMESTAMP_SHIFT)
                   + worker_of(g) * (2 ^ WORKER_ID_SHIFT) + inner.sequence]>>

InitIds ==
    /\ IdleMarket
    /\ IdleMetrics
    /\ IdleBroker
    /\ IdleMtc
    /\ IdleExt
    /\ clock = 1
    /\ sbar_gen \in {NewInner, NearWrap}
    /\ cbar_gen \in {NewInner, NearWrap}
    /\ swing_gen \in {NewInner, NearWrap}
    /\ sbar_rows = <<>>
    /\ cbar_rows = <<>>
    /\ cbar_backtrack_id = None
    /\ swing_rows = <<>>
    /\ swing_backtrack_id = None
    /\ trend_rows = <<>>
    /\ trend_backtrack_id = None
    /\ tr_points = <<>>
    /\ inputs = <<>>
    /\ receiver_b = NewTimeframe
    /\ id_lock = [g \in Generators |-> 0]
    /\ issued = latest_id("sbar", sbar_gen) \o latest_id("cbar", cbar_gen)
                \o latest_id("swing", swing_gen)

\* the generator g takes the state inner
StoreGen(g, inner) ==
    /\ sbar_gen' = IF g = "sbar" THEN inner ELSE sbar_gen
    /\ cbar_gen' = IF g = "cbar" THEN inner ELSE cbar_gen
    /\ swing_gen' = IF g = "swing" THEN inner ELSE swing_gen

\* IdGenerator::get_id: the thread takes the mutex and reads the clock; it
\* returns an id at once unless the sequence wrapped, and then it keeps the
\* mutex, the sequence already set to 0
GetId(thread, g) ==
    /\ Len(issued) < MaxIds
    /\ id_lock[g] = 0
    /\ \A h \in Generators : id_lock[h] # thread
    /\ LET inner == gens_now[g]
           wraps == /\ clock <= inner.last_timestamp
                    /\ (inner.sequence + 1) % (MAX_SEQUENCE + 1) = 0
           r == get_id(inner, worker_of(g), clock)
       IN  IF wraps
           THEN /\ id_lock' = [id_lock EXCEPT ![g] = thread]
                /\ StoreGen(g, [inner EXCEPT !.sequence = 0])
                /\ issued' = issued
           ELSE /\ id_lock' = id_lock
                /\ StoreGen(g, r.inner)
                /\ issued' = Append(issued, [gen |-> g, id |-> r.id])
    /\ UNCHANGED <<clock, sbar_rows, cbar_rows, cbar_backtrack_id, swing_rows,
                   swing_backtrack_id, trendVars, detVars, metricsVars, brokerVars,
                   mtcVars, extVars, marketVars>>

\* the thread that holds the mutex of g reads a clock that has passed
\* last_timestamp, leaves the loop and returns its id
SpinEnds(g) ==
    /\ id_lock[g] # 0
    /\ clock > gens_now[g].last_timestamp
    /\ id_lock' = [id_lock EXCEPT ![g] = 0]
    /\ LET r == get_id(gens_now[g], worker_of(g), clock)
       IN  /\ StoreGen(g, r.inner)
           /\ issued' = Append(issued, [gen |-> g, id |-> r.id])
    /\ UNCHANGED <<clock, sbar_rows, cbar_rows, cbar_backtrack_id, swing_rows,
                   swing_backtrack_id, trendVars, detVars, metricsVars, brokerVars,
                   mtcVars, extVars, marketVars>>

\* the system clock moves, forward or backward
ClockMoves(now) ==
    /\ now # clock
    /\ clock' = now
    /\ UNCHANGED <<sbar_gen, cbar_gen, swing_gen, sbar_rows, cbar_rows, cbar_backtrack_id,
                   swing_rows, swing_backtrack_id, trendVars, detVars, idVars,
                   metricsVars, brokerVars, mtcVars, extVars, marketVars>>

NextIds ==
    \/ \E thread \in Callers, g \in Generators : GetId(thread, g)
    \/ \E g \in Generators : SpinEnds(g)
    \/ \E now \in 1..MaxClock : ClockMoves(now)

SpecIds == InitIds /\ [][NextIds]_vars

\* ------------------------------------------------------------------------
\* The KeyZoneManager of a timeframe: TimeframeManager::append rebuilds the
\* zones from the latest swings, trends and SBars after the trend rebuild.
\* The bars of the model carry a high and a low; every bar opens at its low
\* and closes at its high.  Zone bounds, candidate prices and the tick are
\* kept in twentieths of the price unit, which holds the tick (a tenth of
\* the smallest step, or 0.2) and half of it exactly; the rounding of the
\* repeated f64 addition in the sweep is not modelled.  The reaction log of
\* a zone and the latest signal are left out: they do not touch the bounds,
\* the touch count or the ids of a zone.
\* ------------------------------------------------------------------------
SBAR_WINDOW == 200
SWING_WINDOW == 20
TREND_WINDOW == 20
ZONE_SEEDS == 5

\* SBarManager::last_n, SwingManager::last_n, TrendManager::last_n
last_n(rows, n) == SubSeq(rows, Max2(1, Len(rows) - n + 1), Len(rows))

\* iter().rev().take(n)
rev_take(rows, n) == [i \in 1..Min2(n, Len(rows)) |-> rows[Len(rows) - i + 1]]

\* estimate_tick_size, in twentieths: the candidates of a bar that opens at
\* its low and closes at its high are high - low (three times) and 0
estimate_tick_size(scope) ==
    LET steps == {scope[i].high_price - scope[i].low_price : i \in DOMAIN scope} \ {0}
    IN  IF steps = {} THEN 4
        ELSE 2 * (CHOOSE m \in steps : \A k \in steps : m <= k)

\* the while loop of refine_zone_bounds: the candidate price with the most
\* bars around it, the first such
RECURSIVE sweep(_, _, _, _, _, _)
sweep(scope, price, limit, tick, best_price, best_count) ==
    IF price > limit THEN [best_price |-> best_price, best_count |-> best_count]
    ELSE LET count == Cardinality({i \in DOMAIN scope :
                          /\ 20 * scope[i].low_price <= price
                          /\ price <= 20 * scope[i].high_price})
         IN  IF count > best_count
             THEN sweep(scope, price + tick, limit, tick, price, count)
             ELSE sweep(scope, price + tick, limit, tick, best_price, best_count)

\* refine_zone_bounds
refine_zone_bounds(sbars, start_id, end_id, direction, fallback_lower, fallback_upper) ==
    LET in_scope(x) == start_id <= unwrap_or_default(x.id) /\ unwrap_or_default(x.id) <= end_id
        scope == SelectSeq(sbars, in_scope)
        highs == {20 * scope[i].high_price : i \in DOMAIN scope}
        lows == {20 * scope[i].low_price : i \in DOMAIN scope}
        body_tops == {20 * Max2(scope[i].low_price, scope[i].high_price) : i \in DOMAIN scope}
        body_bottoms == {20 * Min2(scope[i].low_price, scope[i].high_price) : i \in DOMAIN scope}
        max_of(S) == CHOOSE m \in S : \A k \in S : k <= m
        min_of(S) == CHOOSE m \in S : \A k \in S : m <= k
        start ==
            IF direction = "Up"
            THEN [lower |-> 20 * fallback_lower, upper |-> max_of(highs),
                  start_price |-> min_of(body_tops), end_price |-> max_of(highs)]
            ELSE IF direction = "Down"
            THEN [lower |-> min_of(lows), upper |-> 20 * fallback_upper,
                  start_price |-> min_of(lows), end_price |-> max_of(body_bottoms)]
            ELSE [lower |-> 20 * fallback_lower, upper |-> 20 * fallback_upper,
                  start_price |-> 20 * fallback_lower, end_price |-> 20 * fallback_upper]
        refined(s, best) ==
            LET lower == IF direction = "Up" THEN best.best_price ELSE s.lower
                upper == IF direction = "Down" THEN best.best_price ELSE s.upper
            IN  [lower |-> Min2(lower, upper),
                 upper |-> Max2(upper, lower),
                 touch_count |-> Max2(best.best_count, 1),
                 last_touch_id |-> Last(scope).id]
        swept(s, tick) ==
            refined(s, sweep(scope, s.start_price, s.end_price + tick \div 2, tick,
                             s.start_price, 0))
    IN  IF scope = <<>> THEN
            [lower |-> 20 * fallback_lower, upper |-> 20 * fallback_upper,
             touch_count |-> 0, last_touch_id |-> None]
        ELSE IF start.end_price <= start.start_price THEN
            [lower |-> Min2(start.lower, start.upper),
             upper |-> Max2(start.upper, start.lower),
             touch_count |-> Len(scope),
             last_touch_id |-> Last(scope).id]
        ELSE swept(start, estimate_tick_size(scope))

\* KeyZoneManager::push_zone_from_swing and push_zone_from_trend: src is the
\* swing or the trend, origin_type "Swing" or "Trend"
push_zone(km, origin_type, src, sbars) ==
    LET zone(b) ==
            [id |-> km.id_cursor + 1,
             origin_type |-> origin_type,
             upper |-> b.upper,
             lower |-> b.lower,
             touch_count |-> b.touch_count,
             last_touch_id |-> b.last_touch_id,
             sbar_start_id |-> src.sbar_start_id,
             sbar_end_id |-> src.sbar_end_id,
             direction_hint |-> src.direction]
    IN  [rows |-> Append(km.rows,
                         zone(refine_zone_bounds(sbars, src.sbar_start_id, src.sbar_end_id,
                                                 src.direction, src.low_price, src.high_price))),
         id_cursor |-> km.id_cursor + 1]

RECURSIVE push_zones(_, _, _, _, _)
push_zones(km, origin_type, seeds, k, sbars) ==
    IF k > Len(seeds) THEN km
    ELSE push_zones(push_zone(km, origin_type, seeds[k], sbars), origin_type, seeds, k + 1, sbars)

\* KeyZoneManager::rebuild_from
rebuild_from(km, swings, trends, sbars) ==
    push_zones(push_zones([km EXCEPT !.rows = <<>>], "Swing", rev_take(swings, ZONE_SEEDS), 1, sbars),
               "Trend", rev_take(trends, ZONE_SEEDS), 1, sbars)

\* TimeframeManager::append with its KeyZone rebuild
keyzone_append(tf, gens, km, bar, now) ==
    LET zones(r) ==
            [tf |-> r.tf, gens |-> r.gens,
             keyzone |-> rebuild_from(km, last_n(r.tf.swing_rows, SWING_WINDOW),
                                      last_n(r.tf.trend_rows, TREND_WINDOW),
                                      last_n(r.tf.sbar_rows, SBAR_WINDOW))]
    IN  zones(timeframe_append(tf, gens, bar, now))

MaxLead == 3

InitKeyZone ==
    /\ IdleMetrics
    /\ IdleBroker
    /\ IdleMtc
    /\ IdleIds
    /\ IdleStruxis
    /\ IdleMarket
    /\ IdleLater
    /\ keyzone = NewKeyZoneManager

\* the timeframe and its KeyZoneManager take the result r of an append
StoreKeyZone(r) ==
    /\ StoreA(r)
    /\ keyzone' = r.keyzone

\* DataReceiver::ingest_bar: one of the first bars of the stream
LeadBar(high, low) ==
    /\ Len(sbar_rows) < MaxLead
    /\ low <= high
    /\ StoreKeyZone(keyzone_append(tf_a, gens_now, keyzone,
                                   [high_price |-> high, low_price |-> low], clock))
    /\ UNCHANGED <<clock, tr_points, detVars, marketVars, metricsVars, brokerVars, mtcVars,
                   idVars, laterVars>>

\* DataReceiver::ingest_bar: once the chain holds a swing the stream goes on
\* with bars that each lie one above the bar before
RisingBar ==
    /\ Len(sbar_rows) >= MaxLead
    /\ Len(sbar_rows) < MaxLead + SBAR_WINDOW
    /\ swing_rows # <<>>
    /\ StoreKeyZone(keyzone_append(tf_a, gens_now, keyzone,
                                   [high_price |-> Last(sbar_rows).high_price + 1,
                                    low_price |-> Last(sbar_rows).high_price + 1], clock))
    /\ UNCHANGED <<clock, tr_points, detVars, marketVars, metricsVars, brokerVars, mtcVars,
                   idVars, laterVars>>

NextKeyZone ==
    \/ \E high \in Prices, low \in Prices : LeadBar(high, low)
    \/ RisingBar

SpecKeyZone == InitKeyZone /\ [][NextKeyZone]_vars

\* ------------------------------------------------------------------------
\* tick.rs and receiver.rs: ticks aggregated into M1 bars and M1 bars into
\* the bars of the longer timeframes.  Times are seconds; prices, volumes
\* and turnovers are integers.  An Option<SBar> is the sequence of its
\* bars: <<>> for None and <<bar>> for Some(bar).  The key of a tick
\* aggregator is the pair of symbol and exchange.
\* ------------------------------------------------------------------------
MaxMinute == 1
MaxTickOps == 4
MaxFed == 3
MaxM1Bars == 1445

\* TickBarAggregator::new
NewTickBarAggregator ==
    [current_bar |-> <<>>, last_volume |-> None, last_turnover |-> None]

\* DateTime::with_second(0) followed by with_nanosecond(0)
minute_of(datetime) == datetime - (datetime % 60)

\* TickBarAggregator::update emitting the bar in progress on every tick
tick_update_emits_every_tick(agg, tick) ==
    LET minute_dt == minute_of(tick.datetime)
        seen == [agg EXCEPT !.last_volume = tick.volume, !.last_turnover = tick.turnover]
        opened ==
            [id |-> None, symbol |-> tick.symbol, exchange |-> tick.exchange,
             timeframe |-> "M1", datetime |-> minute_dt,
             open_price |-> tick.last_price, high_price |-> tick.last_price,
             low_price |-> tick.last_price, close_price |-> tick.last_price,
             volume |-> 0, open_interest |-> tick.open_interest, turnover |-> 0]
    IN  [agg |-> [seen EXCEPT !.current_bar = <<opened>>], out |-> agg.current_bar]

\* TickBarAggregator::update crediting the whole cumulative volume and
\* turnover of the first tick
tick_update_credits_first_tick(agg, tick) ==
    LET minute_dt == minute_of(tick.datetime)
        delta_volume ==
            IF agg.last_volume = None THEN tick.volume
            ELSE IF tick.volume >= agg.last_volume
            THEN tick.volume - agg.last_volume ELSE 0
        delta_turnover ==
            IF agg.last_turnover = None THEN tick.turnover
            ELSE IF tick.turnover >= agg.last_turnover
            THEN tick.turnover - agg.last_turnover ELSE 0
        seen == [agg EXCEPT !.last_volume = tick.volume, !.last_turnover = tick.turnover]
        opened ==
            [id |-> None, symbol |-> tick.symbol, exchange |-> tick.exchange,
             timeframe |-> "M1", datetime |-> minute_dt,
             open_price |-> tick.last_price, high_price |-> tick.last_price,
             low_price |-> tick.last_price, close_price |-> tick.last_price,
             volume |-> delta_volume, open_interest |-> tick.open_interest,
             turnover |-> delta_turnover]
        widened(bar) ==
            [bar EXCEPT !.high_price = Max2(@, tick.last_price),
                        !.low_price = Min2(@, tick.last_price),
                        !.close_price = tick.last_price,
                        !.volume = @ + delta_volume,
                        !.turnover = @ + delta_turnover,
                        !.open_interest = tick.open_interest]
    IN  IF agg.current_bar = <<>>
        THEN [agg |-> [seen EXCEPT !.current_bar = <<opened>>], out |-> <<>>]
        ELSE IF agg.current_bar[1].datetime = minute_dt
        THEN [agg |-> [seen EXCEPT !.current_bar = <<widened(agg.current_bar[1])>>],
              out |-> <<>>]
        ELSE [agg |-> [seen EXCEPT !.current_bar = <<opened>>], out |-> agg.current_bar]

\* TickBarAggregator::update: the aggregator afterwards and the bar returned
tick_update(agg, tick) ==
    LET minute_dt == minute_of(tick.datetime)
        delta_volume ==
            IF agg.last_volume # None /\ tick.volume >= agg.last_volume
            THEN tick.volume - agg.last_volume ELSE 0
        delta_turnover ==
            IF agg.last_turnover # None /\ tick.turnover >= agg.last_turnover
            THEN tick.turnover - agg.last_turnover ELSE 0
        seen == [agg EXCEPT !.last_volume = tick.volume, !.last_turnover = tick.turnover]
        opened ==
            [id |-> None, symbol |-> tick.symbol, exchange |-> tick.exchange,
             timeframe |-> "M1", datetime |-> minute_dt,
             open_price |-> tick.last_price, high_price |-> tick.last_price,
             low_price |-> tick.last_price, close_price |-> tick.last_price,
             volume |-> delta_volume, open_interest |-> tick.open_interest,
             turnover |-> delta_turnover]
        widened(bar) ==
            [bar EXCEPT !.high_price = Max2(@, tick.last_price),
                        !.low_price = Min2(@, tick.last_price),
                        !.close_price = tick.last_price,
                        !.volume = @ + delta_volume,
                        !.turnover = @ + delta_turnover,
                        !.open_interest = tick.open_interest]
    IN  IF agg.current_bar = <<>>
        THEN [agg |-> [seen EXCEPT !.current_bar = <<opened>>], out |-> <<>>]
        ELSE IF agg.current_bar[1].datetime = minute_dt
        THEN [agg |-> [seen EXCEPT !.current_bar = <<widened(agg.current_bar[1])>>],
              out |-> <<>>]
        ELSE [agg |-> [seen EXCEPT !.current_bar = <<opened>>], out |-> agg.current_bar]

\* TickBarAggregator::flush
tick_flush(agg) == [agg |-> [agg EXCEPT !.current_bar = <<>>], out |-> agg.current_bar]

\* the window of a timeframe in BarWindowAggregator::new
window_of(timeframe) ==
    CASE timeframe = "M1" -> 1
      [] timeframe = "M5" -> 5
      [] timeframe = "M15" -> 15
      [] timeframe = "H1" -> 60
      [] timeframe = "D1" -> 1440

\* BarWindowAggregator::new
NewBarWindowAggregator(timeframe) ==
    IF window_of(timeframe) <= 1 THEN <<>>
    ELSE <<[timeframe |-> timeframe, window |-> window_of(timeframe), buffer |-> <<>>]>>

\* Iterator::sum, the sequence taken in halves
RECURSIVE sum(_)
sum(xs) ==
    IF xs = <<>> THEN 0
    ELSE IF Len(xs) = 1 THEN xs[1]
    ELSE sum(SubSeq(xs, 1, Len(xs) \div 2)) + sum(SubSeq(xs, Len(xs) \div 2 + 1, Len(xs)))

\* BarWindowAggregator::update without the clearing of the buffer
window_update_keeps_buffer(agg, m1_bar) ==
    LET buffer == Append(agg.buffer, m1_bar)
    IN  IF Len(buffer) < agg.window
        THEN [agg |-> [agg EXCEPT !.buffer = buffer], out |-> <<>>]
        ELSE [agg |-> [agg EXCEPT !.buffer = buffer], out |-> <<buffer[1]>>]

\* BarWindowAggregator::update: the aggregator afterwards and the bar returned
window_update(agg, m1_bar) ==
    LET buffer == Append(agg.buffer, m1_bar)
        first == buffer[1]
        last == Last(buffer)
        highs == {buffer[i].high_price : i \in DOMAIN buffer}
        lows == {buffer[i].low_price : i \in DOMAIN buffer}
        bar ==
            [id |-> None, symbol |-> first.symbol, exchange |-> first.exchange,
             timeframe |-> agg.timeframe, datetime |-> last.datetime,
             open_price |-> first.open_price,
             high_price |-> CHOOSE h \in highs : \A x \in highs : x <= h,
             low_price |-> CHOOSE l \in lows : \A x \in lows : l <= x,
             close_price |-> last.close_price,
             volume |-> sum([i \in DOMAIN buffer |-> buffer[i].volume]),
             open_interest |-> last.open_interest,
             turnover |-> sum([i \in DOMAIN buffer |-> buffer[i].turnover])]
    IN  IF Len(buffer) < agg.window
        THEN [agg |-> [agg EXCEPT !.buffer = buffer], out |-> <<>>]
        ELSE [agg |-> [agg EXCEPT !.buffer = <<>>], out |-> <<bar>>]

\* the orders in which a HashMap may hand out the keys in S
orders(S) ==
    {o \in [1..Cardinality(S) -> S] : \A i, j \in 1..Cardinality(S) : o[i] = o[j] => i = j}

\* DataReceiver::register_timeframe over the context's managers (ms) and the
\* receiver's own fields (rcv)
register_timeframe(ms, rcv, timeframe) ==
    LET agg == NewBarWindowAggregator(timeframe)
        aggs == rcv.window_aggregators
    IN  [managers |-> [t \in DOMAIN ms \cup {timeframe} |->
                          IF t \in DOMAIN ms THEN ms[t] ELSE NewTimeframe],
         receiver |->
             [rcv EXCEPT !.registered_timeframes = @ \cup {timeframe},
                         !.window_aggregators =
                             IF agg = <<>> THEN aggs
                             ELSE [t \in DOMAIN aggs \cup {timeframe} |->
                                      IF t = timeframe THEN agg[1] ELSE aggs[t]]]]

\* the loop of DataReceiver::forward_m1_bar over window_aggregators, from the
\* k-th timeframe of the order the map hands them out in.  r holds the
\* receiver's fields and, as appends, the bars bound for the context with
\* their timeframes, in order.
RECURSIVE forward_windows(_, _, _, _)
forward_windows(r, m1_bar, order, k) ==
    LET tf == order[k]
        step(u) ==
            [receiver |-> [r.receiver EXCEPT !.window_aggregators[tf] = u.agg],
             appends |-> IF u.out = <<>> THEN r.appends
                         ELSE Append(r.appends, [timeframe |-> tf, bar |-> u.out[1]])]
    IN  IF k > Len(order) THEN r
        ELSE forward_windows(step(window_update(r.receiver.window_aggregators[tf], m1_bar)),
                             m1_bar, order, k + 1)

\* DataReceiver::forward_m1_bar, the appends to the context listed
forward_m1_bar(r, m1_bar, order) ==
    forward_windows(
        IF "M1" \in r.receiver.registered_timeframes
        THEN [r EXCEPT !.appends = Append(@, [timeframe |-> "M1", bar |-> m1_bar])]
        ELSE r,
        m1_bar, order, 1)

\* DataReceiver::ingest_tick, the appends to the context listed
ingest_tick(rcv, tick, order) ==
    LET key == <<tick.symbol, tick.exchange>>
        aggs == rcv.tick_aggregators
        aggregator == IF key \in DOMAIN aggs THEN aggs[key] ELSE NewTickBarAggregator
        updated(u) ==
            [receiver |-> [rcv EXCEPT !.tick_aggregators =
                              [x \in DOMAIN aggs \cup {key} |->
                                  IF x = key THEN u.agg ELSE aggs[x]]],
             appends |-> <<>>]
        forward(u) ==
            [bars |-> u.out,
             forwarded |-> IF u.out = <<>> THEN updated(u)
                           ELSE forward_m1_bar(updated(u), u.out[1], order)]
    IN  forward(tick_update(aggregator, tick))

\* the second loop of DataReceiver::flush_ticks, from the k-th bar
RECURSIVE forward_bars(_, _, _, _)
forward_bars(r, bars, order, k) ==
    IF k > Len(bars) THEN r
    ELSE forward_bars(forward_m1_bar(r, bars[k], order), bars, order, k + 1)

\* the first loop of DataReceiver::flush_ticks: the bars taken out of the
\* aggregators, from the k-th key of the order the map hands them out in
RECURSIVE flushed_bars(_, _, _)
flushed_bars(aggs, key_order, k) ==
    IF k > Len(key_order) THEN <<>>
    ELSE tick_flush(aggs[key_order[k]]).out \o flushed_bars(aggs, key_order, k + 1)

\* DataReceiver::flush_ticks, the appends to the context listed
flush_ticks(rcv, key_order, order) ==
    LET aggs == rcv.tick_aggregators
        forward(bars) ==
            [bars |-> bars,
             forwarded |->
                 forward_bars([receiver |-> [rcv EXCEPT !.tick_aggregators =
                                                [x \in DOMAIN aggs |-> tick_flush(aggs[x]).agg]],
                               appends |-> <<>>],
                              bars, order, 1)]
    IN  forward(flushed_bars(aggs, key_order, 1))

\* the calls of MultiTimeframeContext::append within forward_m1_bar, from the
\* k-th on.  st holds the managers, the generators and the calls made on
\* subscribers.
RECURSIVE append_all(_, _, _, _, _)
append_all(st, obs, appends, now, k) ==
    LET put(r) ==
            [managers |-> r.managers, gens |-> r.gens, notified |-> st.notified \o r.notified]
    IN  IF k > Len(appends) THEN st
        ELSE append_all(put(mtc_append(st.managers, obs, st.gens, appends[k].timeframe,
                                       appends[k].bar, now)),
                        obs, appends, now, k + 1)

\* ------------------------------------------------------------------------
\* A DataReceiver with M1 and M5 registered takes ticks of two symbols of
\* one exchange and is flushed, all within one clock reading.
\* ------------------------------------------------------------------------
TickSymbols == {"a", "b"}

\* a tick of the given minute; v tells its second, price and cumulative
\* volume and turnover
TickInput(symbol, minute, v) ==
    [symbol |-> symbol, exchange |-> "X", datetime |-> 60 * minute + 29 * v,
     last_price |-> v, volume |-> v, turnover |-> 10 * v, open_interest |-> 3 - v]

\* the ticks of symbol "a" come in two kinds, those of symbol "b" in one
TickInputs ==
    {TickInput("a", minute, v) : minute \in 0..MaxMinute, v \in 1..2}
        \cup {TickInput(symbol, minute, 1) : symbol \in TickSymbols \ {"a"},
                                             minute \in 0..MaxMinute}

InitTicks ==
    /\ IdleStruxis
    /\ IdleMarket
    /\ IdleMetrics
    /\ IdleBroker
    /\ IdleIds
    /\ IdleKeyZone
    /\ IdleWs
    /\ IdleMore
    /\ observable = [subscribers |-> [e \in EventTypes |-> <<>>], all_subscribers |-> <<>>]
    /\ notified = <<>>
    /\ LET m1 == register_timeframe(<<>>, NewDataReceiver, "M1")
           m5 == register_timeframe(m1.managers, m1.receiver, "M5")
       IN  /\ managers = m5.managers
           /\ receiver = m5.receiver
    /\ tick_log = <<>>
    /\ windows = NoWindows

\* the receiver takes the outcome of a call, the context and the generators
\* take the appends; the call is written to the log with the aggregators it
\* found and left, the bars the aggregators gave and the count it returned
StoreTicks(op, out) ==
    /\ LET store(st) ==
               /\ managers' = st.managers
               /\ notified' = st.notified
               /\ sbar_gen' = st.gens.sbar
               /\ cbar_gen' = st.gens.cbar
               /\ swing_gen' = st.gens.swing
       IN  store(append_all([managers |-> managers, gens |-> gens_now, notified |-> <<>>],
                            observable, out.forwarded.appends, clock, 1))
    /\ receiver' = out.forwarded.receiver
    /\ tick_log' = Append(tick_log,
                          [op |-> op, before |-> receiver.tick_aggregators,
                           after |-> out.forwarded.receiver.tick_aggregators,
                           bars |-> out.bars, emitted |-> Len(out.forwarded.appends)])
    /\ UNCHANGED <<observable, clock, sbar_rows, cbar_rows, cbar_backtrack_id, swing_rows,
                   swing_backtrack_id, trendVars, detVars, metricsVars, brokerVars, idVars,
                   keyzoneVars, wsVars, moreVars, windows, marketVars>>

\* DataReceiver::ingest_tick
IngestTick(tick, order) ==
    /\ Len(tick_log) < MaxTickOps
    /\ StoreTicks([name |-> "ingest_tick", tick |-> tick], ingest_tick(receiver, tick, order))

\* DataReceiver::flush_ticks
FlushTicks(key_order, order) ==
    /\ Len(tick_log) < MaxTickOps
    /\ StoreTicks([name |-> "flush_ticks", tick |-> <<>>],
                  flush_ticks(receiver, key_order, order))

NextTicks ==
    \/ \E tick \in TickInputs, order \in orders(DOMAIN receiver.window_aggregators) :
           IngestTick(tick, order)
    \/ \E key_order \in orders(DOMAIN receiver.tick_aggregators),
          order \in orders(DOMAIN receiver.window_aggregators) :
           FlushTicks(key_order, order)

SpecTicks == InitTicks /\ [][NextTicks]_vars

\* ------------------------------------------------------------------------
\* One BarWindowAggregator for every timeframe above M1, all fed the same
\* stream of M1 bars, one bar a minute.  The first bars of the stream come
\* in two kinds; from then on the kinds alternate.
\* ------------------------------------------------------------------------
WindowTimeframes == {"M5", "M15", "H1", "D1"}

\* the M1 bar of minute n, of kind v
M1Bar(n, v) ==
    [id |-> None, symbol |-> "a", exchange |-> "X", timeframe |-> "M1", datetime |-> 60 * n,
     open_price |-> v, high_price |-> v + 1, low_price |-> v - 1, close_price |-> 3 - v,
     volume |-> v, open_interest |-> v, turnover |-> 10 * v]

InitWindows ==
    /\ IdleStruxis
    /\ IdleMarket
    /\ IdleMetrics
    /\ IdleBroker
    /\ IdleMtc
    /\ IdleIds
    /\ IdleKeyZone
    /\ IdleWs
    /\ IdleMore
    /\ receiver = NewDataReceiver
    /\ tick_log = <<>>
    /\ windows = [NoWindows EXCEPT
                     !.aggregators = [tf \in WindowTimeframes |-> NewBarWindowAggregator(tf)[1]],
                     !.out = [tf \in WindowTimeframes |-> <<>>]]

\* BarWindowAggregator::update on every aggregator with the next bar of the
\* stream
WindowUpdate(m1_bar) ==
    /\ windows.fed < MaxM1Bars
    /\ LET updated == [tf \in WindowTimeframes |->
                          window_update(windows.aggregators[tf], m1_bar)]
       IN  windows' = [aggregators |-> [tf \in WindowTimeframes |-> updated[tf].agg],
                       fed |-> windows.fed + 1,
                       m1_bar |-> <<m1_bar>>,
                       out |-> [tf \in WindowTimeframes |-> updated[tf].out]]
    /\ UNCHANGED <<receiver, tick_log, struxisVars, marketVars, metricsVars, brokerVars,
                   mtcVars, idVars, keyzoneVars, wsVars, moreVars>>

NextWindows ==
    \E v \in IF windows.fed < MaxFed THEN 1..2 ELSE {1 + (windows.fed % 2)} :
        WindowUpdate(M1Bar(windows.fed + 1, v))

SpecWindows == InitWindows /\ [][NextWindows]_vars

\* ------------------------------------------------------------------------
\* broker/src/adapters/crypto/binance.rs: the adapter's thread restarts the
\* websocket reader while reader threads of earlier restarts still run.
\* Every load, store and fetch_add of an atomic and every push is a step of
\* its own.  The reader spawned by the n-th restart is reader n; its
\* current_epoch is n, and it keeps the epoch at which the message in its
\* hands arrived.  A message is "bar" (a text that parses to a bar),
\* "skip" (any other text, Binary, Ping, Pong, Frame) or "close" (Close or an
\* error).  last_message_ms and the synthetic bars that poll_bar makes when
\* the queue is empty are left out.  ws.pushed lists every push with the
\* reader, the epoch at the push and the epoch at which the message arrived.
\* ------------------------------------------------------------------------
MaxEpoch == 2
MaxWsBars == 2

WsSymbols == {"btc", "eth"}
Messages == {"bar", "skip", "close"}

\* spawn_ws_reader up to the fetch_add on ws_epoch
ws_fetch_add(a) == [a EXCEPT !.ws_epoch = @ + 1, !.spawning = TRUE]

\* spawn_ws_reader from the store on ws_running to thread::spawn
ws_spawn(a) ==
    [a EXCEPT !.ws_running = TRUE, !.spawning = FALSE,
              !.readers = Append(@, [pc |-> "connecting", msg |-> "none", arrived_at |-> 0])]

\* the reader thread builds its runtime and connects
ws_connect(a, r, ok) ==
    IF ok THEN [a EXCEPT !.readers[r].pc = "reading"]
    ELSE [a EXCEPT !.ws_running = FALSE, !.readers[r].pc = "exited"]

\* read.next() returns: a message, or the end of the stream
ws_next(a, r, msg) ==
    IF msg = "none" THEN [a EXCEPT !.readers[r].pc = "after_loop"]
    ELSE [a EXCEPT !.readers[r] = [pc |-> "arrived", msg |-> msg, arrived_at |-> a.ws_epoch]]

\* the head of the loop body without the comparison of the epochs
ws_check_ignores_epoch(a, r) == [a EXCEPT !.readers[r].pc = "matching"]

\* the load of ws_epoch at the head of the loop body
ws_check(a, r) ==
    IF a.ws_epoch # r THEN [a EXCEPT !.readers[r].pc = "after_loop", !.readers[r].msg = "none"]
    ELSE [a EXCEPT !.readers[r].pc = "matching"]

\* the match on the message
ws_match(a, r) ==
    LET reader == a.readers[r]
        bar == [reader |-> r, epoch |-> a.ws_epoch, arrived_at |-> reader.arrived_at]
        reading == [pc |-> "reading", msg |-> "none", arrived_at |-> 0]
    IN  CASE reader.msg = "bar" ->
                 [a EXCEPT !.queue = Append(@, bar), !.pushed = Append(@, bar),
                           !.readers[r] = reading]
          [] reader.msg = "skip" -> [a EXCEPT !.readers[r] = reading]
          [] reader.msg = "close" ->
                 [a EXCEPT !.readers[r] = [pc |-> "after_loop", msg |-> "none", arrived_at |-> 0]]

\* the load of ws_epoch after the loop
ws_after_loop(a, r) ==
    IF a.ws_epoch = r THEN [a EXCEPT !.readers[r].pc = "clearing", !.readers[r].arrived_at = 0]
    ELSE [a EXCEPT !.readers[r].pc = "exited", !.readers[r].arrived_at = 0]

\* the store on ws_running after the loop
ws_clear(a, r) == [a EXCEPT !.ws_running = FALSE, !.readers[r].pc = "exited"]

InitWs ==
    /\ IdleStruxis
    /\ IdleMarket
    /\ IdleMetrics
    /\ IdleBroker
    /\ IdleMtc
    /\ IdleIds
    /\ IdleKeyZone
    /\ IdleReceiver
    /\ IdleMore
    /\ ws = NewBinanceWsAdapter

\* the adapter takes the outcome of a step
StoreWs(a) ==
    /\ ws' = a
    /\ UNCHANGED <<struxisVars, marketVars, metricsVars, brokerVars, mtcVars, idVars,
                   keyzoneVars, receiverVars, moreVars>>

\* BinanceWsAdapter::connect up to the fetch_add within spawn_ws_reader
WsConnect ==
    /\ ~ws.spawning
    /\ ws.ws_epoch < MaxEpoch
    /\ StoreWs(ws_fetch_add([ws EXCEPT !.connected = TRUE,
                                       !.subscriptions = IF @ = {} THEN {"btc"} ELSE @]))

\* BinanceWsAdapter::subscribe_symbol, up to the fetch_add when it restarts
\* the reader
WsSubscribeSymbol(symbol) ==
    /\ ~ws.spawning
    /\ ws.connected
    /\ ws.ws_epoch < MaxEpoch
    /\ StoreWs(IF symbol \in ws.subscriptions THEN ws
               ELSE ws_fetch_add([ws EXCEPT !.subscriptions = @ \cup {symbol}]))

\* the rest of spawn_ws_reader
WsSpawn ==
    /\ ws.spawning
    /\ StoreWs(ws_spawn(ws))

\* BinanceWsAdapter::poll_bar finding a bar in the queue
WsPollBar ==
    /\ ~ws.spawning
    /\ ws.connected
    /\ ws.queue # <<>>
    /\ StoreWs([ws EXCEPT !.queue = Tail(@)])

\* the steps of reader r
WsReaderConnects(r, ok) ==
    /\ ws.readers[r].pc = "connecting"
    /\ StoreWs(ws_connect(ws, r, ok))

WsReaderNext(r, msg) ==
    /\ ws.readers[r].pc = "reading"
    /\ msg = "bar" => Len(ws.pushed) + Cardinality({x \in DOMAIN ws.readers :
                          ws.readers[x].pc \in {"arrived", "matching"}
                              /\ ws.readers[x].msg = "bar"}) < MaxWsBars
    /\ StoreWs(ws_next(ws, r, msg))

WsReaderChecks(r) ==
    /\ ws.readers[r].pc = "arrived"
    /\ StoreWs(ws_check(ws, r))

WsReaderMatches(r) ==
    /\ ws.readers[r].pc = "matching"
    /\ StoreWs(ws_match(ws, r))

WsReaderLeaves(r) ==
    /\ ws.readers[r].pc = "after_loop"
    /\ StoreWs(ws_after_loop(ws, r))

WsReaderClears(r) ==
    /\ ws.readers[r].pc = "clearing"
    /\ StoreWs(ws_clear(ws, r))

NextWs ==
    \/ WsConnect
    \/ \E symbol \in WsSymbols : WsSubscribeSymbol(symbol)
    \/ WsSpawn
    \/ WsPollBar
    \/ \E r \in DOMAIN ws.readers :
           \/ \E ok \in BOOLEAN : WsReaderConnects(r, ok)
           \/ \E msg \in Messages \cup {"none"} : WsReaderNext(r, msg)
           \/ WsReaderChecks(r)
           \/ WsReaderMatches(r)
           \/ WsReaderLeaves(r)
           \/ WsReaderClears(r)

SpecWs == InitWs /\ [][NextWs]_vars

\* ------------------------------------------------------------------------
\* A bare TrendManager handed swing lists in which some swings are still
\* PendingReverse: the caller appends one swing at a time, each starting at
\* the price where the previous one ended, and names its state.  The swing
\* rebuild turns a last Forming swing into Confirmed before it returns
\* (swing.rs:294-299), so the lists hold no Forming swing.
\* ------------------------------------------------------------------------
MaxSeedSwings == 5
MaxSeedLevel == 4
SeedLevels == 1..MaxSeedLevel
SeedStates == {"Confirmed", "PendingReverse"}

\* the swings between the turning prices, each with the state named for it
marked_swings(points, states) ==
    [k \in DOMAIN states |-> [swing_between(points, k) EXCEPT !.state = states[k]]]

InitSeed ==
    /\ IdleRest
    /\ FreshStruxis
    /\ tr_points \in {<<p>> : p \in SeedLevels}
    /\ inputs = <<>>
    /\ receiver_b = NewTimeframe
    /\ IdleMarket

\* TrendManager::rebuild_from_swings on the list extended by one swing
RebuildFromMarkedSwings(p, state) ==
    /\ Len(tr_states) < MaxSeedSwings
    /\ p # Last(tr_points)
    /\ Len(tr_points) >= 2 =>
           ((p > Last(tr_points)) = (Last(tr_points) < tr_points[Len(tr_points) - 1]))
    /\ tr_points' = Append(tr_points, p)
    /\ tr_states' = Append(tr_states, state)
    /\ StoreTrends(rebuild_from_swings_with_backtrack(
                       trend_rows,
                       marked_swings(Append(tr_points, p), Append(tr_states, state)),
                       None))
    /\ UNCHANGED <<pipeVars, detVars, marketVars, metricsVars, brokerVars, mtcVars, idVars,
                   keyzoneVars, receiverVars, wsVars, replayVars, storeVars>>

NextSeed == \E p \in SeedLevels, state \in SeedStates : RebuildFromMarkedSwings(p, state)
SpecSeed == InitSeed /\ [][NextSeed]_vars

\* ------------------------------------------------------------------------
\* The ResilientAdapter with a record of what its adapter was told: the
\* symbols the adapter took (subscribe_symbol answered Ok) since the latest
\* connect it answered Ok.
\* ------------------------------------------------------------------------
\* the record after the adapter calls of entries
RECURSIVE taken(_, _)
taken(symbols, entries) ==
    IF entries = <<>> THEN symbols
    ELSE LET entry == entries[1]
         IN  taken(IF entry.fn = "connect" /\ entry.ok THEN {}
                   ELSE IF entry.fn = "subscribe_symbol" /\ entry.ok
                   THEN symbols \cup {entry.symbol}
                   ELSE symbols,
                   Tail(entries))

\* subscribe_symbol on the wrapper, which forwards when connected
ForwardSymbol(symbol) ==
    /\ SubscribeSymbolCall(symbol)
    /\ forwarded' = taken(forwarded, calls')

\* the adapter answers a connect, a replayed subscribe_symbol, a heartbeat
\* or a poll_bar
AdapterTakes ==
    /\ AdapterAnswers
    /\ forwarded' = taken(forwarded, SubSeq(calls', Len(calls) + 1, Len(calls')))

NextReplay ==
    \/ \E symbol \in {"BTC", "eth"} : ForwardSymbol(symbol)
    \/ Connect
    \/ \E tick \in 0..MaxTick : PollBar(tick)
    \/ AdapterTakes

SpecReplay == InitBroker /\ [][NextReplay]_vars

\* ------------------------------------------------------------------------
\* market/src/storage.rs: the AsyncBarStore.  Its owner enqueues bars,
\* flushes and closes or drops it; the worker thread takes the messages out
\* of the bounded channel.  The sender of the channel lives in the store
\* and goes when the store is dropped, after close or drop has returned.
\* ------------------------------------------------------------------------
MaxQueueCapacity == 2
MaxStoreBars == 2

\* Sender::try_send on the bounded channel
try_send(st, message) ==
    IF st.worker = "exited" THEN [st |-> st, out |-> "Disconnected"]
    ELSE IF Len(st.queue) >= st.capacity THEN [st |-> st, out |-> "Full"]
    ELSE [st |-> [st EXCEPT !.queue = Append(@, message)], out |-> "Ok"]

\* the call of the owner returns value
store_returns(st, value) ==
    [st EXCEPT !.caller = "idle", !.op = "none", !.ack = "none", !.ack_result = "None",
               !.result = value]

\* the worker thread ends: the receiver of the channel is dropped and with
\* it the messages left in the channel and their ack senders
worker_exits(st) ==
    [st EXCEPT !.worker = "exited", !.queue = <<>>,
               !.ack = IF st.caller \in {"flush_ack", "shutdown_ack"} /\ st.ack = "none"
                       THEN "closed" ELSE @]

\* run_async_store_worker: BarStore::open(path)?
worker_opens(st, ok) ==
    IF ok THEN [st EXCEPT !.worker = "recv"] ELSE worker_exits(st)

\* run_async_store_worker: one message taken by rx.recv(); ok is the
\* outcome of the write or flush it leads to
worker_takes(st, ok) ==
    LET message == Head(st.queue)
        taken_out == [st EXCEPT !.queue = Tail(@)]
        acked == [taken_out EXCEPT !.ack = IF ok THEN "Ok" ELSE "IoError"]
    IN  IF message = "Bar" THEN
            IF ok THEN [taken_out EXCEPT !.appended = @ + 1] ELSE worker_exits(taken_out)
        ELSE IF message = "Flush" THEN acked
        ELSE worker_exits(acked)

\* AsyncBarStore::enqueue_bar
enqueue_bar(st) ==
    LET r == try_send(st, "Bar")
    IN  [r.st EXCEPT !.offered = @ + 1,
                     !.result = IF r.out = "Ok" THEN "Ok"
                                ELSE IF r.out = "Full" THEN "WouldBlock" ELSE "BrokenPipe"]

\* AsyncBarStore::flush up to ack_rx.recv()
flush(st) ==
    LET r == try_send(st, "Flush")
    IN  IF r.out = "Ok" THEN [r.st EXCEPT !.caller = "flush_ack", !.op = "flush"]
        ELSE [st EXCEPT !.result = IF r.out = "Full" THEN "WouldBlock" ELSE "BrokenPipe"]

\* AsyncBarStore::shutdown_and_join up to ack_rx.recv() or the join, called
\* by close or by drop
shutdown_and_join(st, op) ==
    LET r == try_send(st, "Shutdown")
        called == [r.st EXCEPT !.op = op]
    IN  IF ~st.handle THEN [store_returns(st, "Ok") EXCEPT !.sender = FALSE]
        ELSE IF r.out = "Ok" THEN [called EXCEPT !.caller = "shutdown_ack"]
        ELSE IF r.out = "Full"
        THEN [called EXCEPT !.caller = "join", !.ack_result = "WouldBlock"]
        ELSE [called EXCEPT !.caller = "join", !.ack_result = "Ok"]

\* ack_rx.recv() returns: in flush the call returns; in shutdown_and_join
\* the join follows, or the error of a closed ack channel is returned at
\* once: drop then lets go of the worker handle, while the store that close
\* consumed is dropped with its handle in place and joins in that drop
ack_received(st) ==
    LET value == IF st.ack = "closed" THEN "BrokenPipe" ELSE st.ack
    IN  IF st.caller = "flush_ack" THEN store_returns(st, value)
        ELSE IF st.ack # "closed"
        THEN [st EXCEPT !.caller = "join", !.ack = "none", !.ack_result = value]
        ELSE IF st.op = "close"
        THEN [st EXCEPT !.caller = "join", !.ack = "none", !.ack_result = value]
        ELSE [store_returns(st, value) EXCEPT !.handle = FALSE, !.sender = FALSE]

\* handle.join() returns, and with shutdown_and_join the close or drop; the
\* store is gone and its sender with it
joined(st) ==
    [store_returns(st, st.ack_result) EXCEPT !.handle = FALSE, !.sender = FALSE]

InitStore ==
    /\ IdleStruxis
    /\ IdleMarket
    /\ IdleMetrics
    /\ IdleBroker
    /\ IdleMtc
    /\ IdleIds
    /\ IdleKeyZone
    /\ IdleReceiver
    /\ IdleWs
    /\ IdleSeed
    /\ IdleReplay
    /\ \E queue_capacity \in 0..MaxQueueCapacity :
           bar_store = NewAsyncBarStore(queue_capacity)

StoreStore(st) ==
    /\ bar_store' = st
    /\ UNCHANGED <<struxisVars, marketVars, metricsVars, brokerVars, mtcVars, idVars,
                   keyzoneVars, receiverVars, wsVars, seedVars, replayVars>>

\* AsyncBarStore::enqueue_bar
EnqueueBar ==
    /\ bar_store.caller = "idle"
    /\ bar_store.sender
    /\ bar_store.offered < MaxStoreBars
    /\ StoreStore(enqueue_bar(bar_store))

\* AsyncBarStore::flush
Flush ==
    /\ bar_store.caller = "idle"
    /\ bar_store.sender
    /\ StoreStore(flush(bar_store))

\* AsyncBarStore::close, or the store goes out of scope
Close(op) ==
    /\ bar_store.caller = "idle"
    /\ bar_store.sender
    /\ StoreStore(shutdown_and_join(bar_store, op))

\* the owner's wait on the ack channel ends
AckReceived ==
    /\ bar_store.caller \in {"flush_ack", "shutdown_ack"}
    /\ bar_store.ack # "none"
    /\ StoreStore(ack_received(bar_store))

\* the owner's wait on the worker's JoinHandle ends
Joined ==
    /\ bar_store.caller = "join"
    /\ bar_store.worker = "exited"
    /\ StoreStore(joined(bar_store))

\* the worker thread opens the file
WorkerOpens(ok) ==
    /\ bar_store.worker = "opening"
    /\ StoreStore(worker_opens(bar_store, ok))

\* the worker thread takes a message
WorkerTakes(ok) ==
    /\ bar_store.worker = "recv"
    /\ bar_store.queue # <<>>
    /\ StoreStore(worker_takes(bar_store, ok))

\* the worker thread runs.  rx.recv() returns Err only on an empty channel
\* whose sender is gone, and the sender goes after close or drop returned,
\* when the worker has ended: the worker never leaves its loop that way.
WorkerStep ==
    \/ \E ok \in BOOLEAN : WorkerOpens(ok)
    \/ \E ok \in BOOLEAN : WorkerTakes(ok)

NextStore ==
    \/ EnqueueBar
    \/ Flush
    \/ \E op \in {"close", "drop"} : Close(op)
    \/ AckReceived
    \/ Joined
    \/ WorkerStep

SpecStore == InitStore /\ [][NextStore]_vars

\* the worker thread and the owner's thread are scheduled: a wait that can
\* end does end
SpecStoreFair ==
    /\ SpecStore
    /\ WF_vars(WorkerStep)
    /\ WF_vars(AckReceived)
    /\ WF_vars(Joined)

\* ------------------------------------------------------------------------
\* Properties of the CBar chain and its fractal labels
\* ------------------------------------------------------------------------
\* position of the SBar with the given id in SBarManager.rows, 0 when absent
sbar_pos(id) ==
    LET hits == {i \in 1..Len(sbar_rows) : sbar_rows[i].id = id}
    IN  IF hits = {} THEN 0 ELSE CHOOSE i \in hits : TRUE

\* C1: after every append no two adjacent CBars are inclusive: for every
\* adjacent pair (a, b) neither a contains b (a.high >= b.high and
\* a.low <= b.low) nor b contains a (a.high <= b.high and a.low >= b.low).
C1_AdjacentCBarsNonInclusive ==
    \A i \in 1..(Len(cbar_rows) - 1) :
        LET a == cbar_rows[i]
            b == cbar_rows[i + 1]
        IN  /\ ~(a.high_price >= b.high_price /\ a.low_price <= b.low_price)
            /\ ~(a.high_price <= b.high_price /\ a.low_price >= b.low_price)

\* a chain of three CBars that has absorbed at least one SBar by merging
C1_Witness ==
    /\ Len(cbar_rows) >= 3
    /\ Len(sbar_rows) > Len(cbar_rows)

\* C2: after every append the CBar chain partitions the appended SBars: the
\* first CBar starts at the first SBar, each following CBar starts at the
\* SBar right after the previous CBar's last SBar, every CBar's range is
\* non-empty, and the last CBar ends at the newest SBar.
C2_CBarsPartitionSBars ==
    sbar_rows # <<>> =>
        /\ cbar_rows # <<>>
        /\ sbar_pos(cbar_rows[1].sbar_start_id) = 1
        /\ sbar_pos(Last(cbar_rows).sbar_end_id) = Len(sbar_rows)
        /\ \A i \in 1..Len(cbar_rows) :
               /\ sbar_pos(cbar_rows[i].sbar_start_id) >= 1
               /\ sbar_pos(cbar_rows[i].sbar_start_id)
                      <= sbar_pos(cbar_rows[i].sbar_end_id)
        /\ \A i \in 1..(Len(cbar_rows) - 1) :
               sbar_pos(cbar_rows[i + 1].sbar_start_id)
                   = sbar_pos(cbar_rows[i].sbar_end_id) + 1

\* two CBars, the second covering more than one SBar
C2_Witness ==
    /\ Len(cbar_rows) >= 2
    /\ sbar_pos(Last(cbar_rows).sbar_end_id)
           > sbar_pos(Last(cbar_rows).sbar_start_id)

\* C3: after every append every interior CBar carries the three-bar verdict
\* of its current neighbours and the first and last CBar carry None.
C3_FractalLabelsAreLocalVerdicts ==
    \A i \in 1..Len(cbar_rows) :
        IF i = 1 \/ i = Len(cbar_rows)
        THEN cbar_rows[i].fractal_type = "None"
        ELSE cbar_rows[i].fractal_type =
                 Fractal_verify(cbar_rows[i - 1], cbar_rows[i], cbar_rows[i + 1])

\* a chain of four CBars with a Top and a Bottom in its interior
C3_Witness ==
    /\ Len(cbar_rows) >= 4
    /\ \E i \in 2..(Len(cbar_rows) - 1) : cbar_rows[i].fractal_type = "Top"
    /\ \E i \in 2..(Len(cbar_rows) - 1) : cbar_rows[i].fractal_type = "Bottom"

\* ------------------------------------------------------------------------
\* Properties of the swing chain
\* ------------------------------------------------------------------------
\* fractal label carried in the current chain by the CBar with this id,
\* "Absent" when the chain holds no such CBar
label_of_cbar(id) ==
    LET hits == {i \in 1..Len(cbar_rows) : cbar_rows[i].id = id}
    IN  IF hits = {} THEN "Absent"
        ELSE cbar_rows[CHOOSE i \in hits : TRUE].fractal_type

\* C4: after every append every Confirmed swing starts at a CBar carrying
\* one fractal kind and ends at a CBar carrying the opposite kind: an Up
\* swing runs from a Bottom to a Top, a Down swing from a Top to a Bottom.
C4_ConfirmedSwingJoinsOppositeFractals ==
    \A i \in 1..Len(swing_rows) :
        swing_rows[i].state = "Confirmed" =>
            /\ swing_rows[i].direction \in {"Up", "Down"}
            /\ swing_rows[i].direction = "Up" =>
                   /\ label_of_cbar(swing_rows[i].cbar_start_id) = "Bottom"
                   /\ label_of_cbar(swing_rows[i].cbar_end_id) = "Top"
            /\ swing_rows[i].direction = "Down" =>
                   /\ label_of_cbar(swing_rows[i].cbar_start_id) = "Top"
                   /\ label_of_cbar(swing_rows[i].cbar_end_id) = "Bottom"

\* ------------------------------------------------------------------------
\* Properties of the trend chain
\* ------------------------------------------------------------------------
\* C6: after any trend rebuild, for adjacent trends A, B with A completed,
\* B.direction is the opposite of A.direction and B.swing_start_id is the
\* id of the confirmed swing immediately after A.swing_end_id.
C6_CompletedTrendFlipsAtNextSwing ==
    \A i \in 1..(Len(trend_rows) - 1) :
        LET A == trend_rows[i]
            B == trend_rows[i + 1]
            after == next_swing_by_id(SelectSeq(swings_of(tr_points), swing_is_completed),
                                      A.swing_end_id)
        IN  A.is_completed =>
                /\ B.direction = opposite(A.direction)
                /\ after # <<>>
                /\ B.swing_start_id = after[1].id

\* ------------------------------------------------------------------------
\* Determinism across receivers
\* ------------------------------------------------------------------------
\* C7: two receivers that were fed the same input sequence, bar by bar or
\* as one batch, hold element-wise equal CBar, Swing and Trend sequences,
\* ids included.
C7_ReceiversAgreeOnSameInputs ==
    (/\ Len(sbar_rows) = Len(inputs)
     /\ Len(receiver_b.sbar_rows) = Len(inputs))
        => /\ cbar_rows = receiver_b.cbar_rows
           /\ swing_rows = receiver_b.swing_rows
           /\ trend_rows = receiver_b.trend_rows

\* ------------------------------------------------------------------------
\* Properties of the ingress ring
\* ------------------------------------------------------------------------
\* C9: a push onto a ring that is not full appends the bar and returns
\* Enqueued; onto a full ring under DropNewest it returns DroppedNewest and
\* leaves the queued bars unchanged; onto a full ring under DropOldest it
\* removes the head, appends the bar at the tail and returns DroppedOldest.
\* With capacity 1 and pushes A (1) then B (2), a pop yields A under
\* DropNewest and B under DropOldest.
C9_PushFollowsOverloadPolicy ==
    [][/\ (Len(ring_ops') = Len(ring_ops) + 1 /\ Last(ring_ops').op = "push") =>
           LET bar == Last(ring_ops').bar IN
           /\ Len(queue) < capacity =>
                  /\ queue' = Append(queue, bar)
                  /\ push_result' = "Enqueued"
           /\ (Len(queue) >= capacity /\ overload_policy = "DropNewest") =>
                  /\ queue' = queue
                  /\ push_result' = "DroppedNewest"
           /\ (Len(queue) >= capacity /\ overload_policy = "DropOldest") =>
                  /\ queue' = Append(Tail(queue), bar)
                  /\ push_result' = "DroppedOldest"
       /\ (/\ Len(ring_ops') = Len(ring_ops) + 1
           /\ Last(ring_ops').op = "pop"
           /\ capacity = 1
           /\ ring_ops = <<[op |-> "push", bar |-> 1], [op |-> "push", bar |-> 2]>>) =>
              pop_result' = IF overload_policy = "DropNewest" THEN <<1>> ELSE <<2>>
      ]_vars

\* capacity 1 under DropOldest: A and B were pushed, B evicted A, the pop
\* returned B
C9_Witness ==
    /\ capacity = 1
    /\ overload_policy = "DropOldest"
    /\ ring_ops = <<[op |-> "push", bar |-> 1], [op |-> "push", bar |-> 2],
                    [op |-> "pop", bar |-> 0]>>
    /\ push_result = "DroppedOldest"
    /\ pop_result = <<2>>

\* C10: with concurrent producers and consumers, under either policy, the
\* bars of any one producer leave the queue in the order that producer
\* pushed them, and no bar leaves the queue twice.
C10_PerProducerFifoNoDuplicates ==
    \A i \in 1..Len(pop_log) : \A j \in (i + 1)..Len(pop_log) :
        /\ pop_log[i] # pop_log[j]
        /\ pop_log[i].producer = pop_log[j].producer =>
               pop_log[i].seq < pop_log[j].seq

\* both bars of one producer and a bar of the other have left the queue,
\* while some push evicted a bar
C10_Witness ==
    /\ threads # <<>>
    /\ \E p \in Producers : threads[p].result = "DroppedOldest"
    /\ \E p \in Producers :
           /\ \E i \in 1..Len(pop_log) : pop_log[i] = [producer |-> p, seq |-> 1]
           /\ \E i \in 1..Len(pop_log) : pop_log[i] = [producer |-> p, seq |-> 2]
           /\ \E i \in 1..Len(pop_log) : pop_log[i].producer # p

\* ------------------------------------------------------------------------
\* Properties of the fan-out
\* ------------------------------------------------------------------------
\* position of the bar in the sequence, 0 when absent
pos_in(seq, bar) ==
    LET hits == {i \in 1..Len(seq) : seq[i] = bar}
    IN  IF hits = {} THEN 0 ELSE CHOOSE i \in hits : \A j \in hits : i <= j

C11_IngestPushesBroadcastsAndCounts ==
    [][\A k \in ChannelKeys :
           Len(ingested'[k]) > Len(ingested[k]) =>
               /\ published' = published + 1
               /\ push_result' \in {"Enqueued", "DroppedNewest", "DroppedOldest"}
               /\ push_result' # "DroppedNewest" =>
                      (queue' # <<>> /\ Last(queue') = Last(ingested'[k]))
               /\ push_result' = "DroppedNewest" => queue' = queue
               /\ (k \in DOMAIN channels /\ channels[k].rx_count > 0) =>
                      channels'[k].log = Append(channels[k].log, Last(ingested'[k]))
               /\ receivers' = IF k \in DOMAIN channels THEN channels[k].rx_count ELSE 0
      ]_vars

\* the ring dropped the second bar and a subscriber has received it
C11_Witness ==
    /\ subscribers # <<>>
    /\ push_result = "DroppedNewest"
    /\ published = 2
    /\ \A i \in 1..Len(queue) : queue[i].id # published
    /\ \E s \in SubscriberIds :
           \E i \in 1..Len(subscribers[s].received) :
               subscribers[s].received[i].id = published

\* ------------------------------------------------------------------------
\* Properties of the metrics snapshot
\* ------------------------------------------------------------------------
\* C12: every snapshot Feed::metrics returns satisfies
\* dropped = dropped_newest + dropped_oldest = backpressure_events, also
\* when other threads are ingesting during the call.
C12_SnapshotDropCountsAgree ==
    snapshot.pc = "done" =>
        /\ snapshot.dropped = snapshot.dropped_newest + snapshot.dropped_oldest
        /\ snapshot.backpressure_events = snapshot.dropped_newest + snapshot.dropped_oldest

\* ------------------------------------------------------------------------
\* Properties of the resilient wrapper
\* ------------------------------------------------------------------------
\* the reconnects of the latest wrapper call: where each begins in calls
reconnects == {m \in 1..Len(calls) : calls[m].fn = "reconnect_with_backoff"}

\* the entries of calls made by the reconnect that begins at m
reconnect_entries(m) ==
    {i \in (m + 1)..Len(calls) :
        \A k \in (m + 1)..i : calls[k].fn # "reconnect_with_backoff"}

connects_of(m) == {i \in reconnect_entries(m) : calls[i].fn = "connect"}

\* C13 as stated: one reconnect makes at most max_retries calls to the
\* adapter's connect, makes none after one that succeeded, and once
\* max_retries of them failed the wrapper call has returned ConnectionFailed
\* and the wrapper is not connected
C13_ReconnectAtMostMaxRetries ==
    \A m \in reconnects :
        /\ Cardinality(connects_of(m)) <= config.max_retries
        /\ \A i, j \in connects_of(m) : i < j => ~calls[i].ok
        /\ (/\ config.max_retries >= 1
            /\ Cardinality(connects_of(m)) = config.max_retries
            /\ \A i \in connects_of(m) : ~calls[i].ok)
               => /\ call.at = "idle"
                  /\ result.value = "ConnectionFailed"
                  /\ ~wrapper.connected

\* C13 amended: one reconnect makes at most max(max_retries, 1) calls to the
\* adapter's connect, makes none after one that succeeded, and once that
\* many of them failed the wrapper call has returned ConnectionFailed with
\* the connected flag as it was when the reconnect began: false inside
\* poll_bar, unchanged inside connect
C13_ReconnectAtMostMaxRetriesOrOne ==
    \A m \in reconnects :
        /\ Cardinality(connects_of(m)) <= Max2(config.max_retries, 1)
        /\ \A i, j \in connects_of(m) : i < j => ~calls[i].ok
        /\ (/\ Cardinality(connects_of(m)) = Max2(config.max_retries, 1)
            /\ \A i \in connects_of(m) : ~calls[i].ok)
               => /\ call.at = "idle"
                  /\ result.value = "ConnectionFailed"
                  /\ wrapper.connected = (result.op = "connect" /\ call.entry.connected)

\* connect on a connected wrapper used up two attempts
C13_Witness ==
    /\ config.max_retries = 2
    /\ result = [op |-> "connect", value |-> "ConnectionFailed"]
    /\ call.at = "idle"
    /\ wrapper.connected
    /\ \E m \in reconnects :
           /\ Cardinality(connects_of(m)) = 2
           /\ \A i \in connects_of(m) : ~calls[i].ok

\* the latest reconnect of the latest wrapper call, 0 when it made none
latest_reconnect ==
    IF reconnects = {} THEN 0 ELSE CHOOSE m \in reconnects : \A k \in reconnects : k <= m

\* the reconnect that begins at m connected, replayed and returned Ok
reconnect_succeeded(m) ==
    /\ \E i \in connects_of(m) : calls[i].ok
    /\ \A i \in reconnect_entries(m) : calls[i].fn = "subscribe_symbol" => calls[i].ok
    /\ ~(m = latest_reconnect /\ call.at = "replay")

\* the symbols the reconnect that begins at m handed to the adapter, in order
replayed(m) ==
    LET last == IF reconnect_entries(m) = {} THEN m
                ELSE CHOOSE i \in reconnect_entries(m) : \A k \in reconnect_entries(m) : k <= i
        made == SelectSeq(SubSeq(calls, m + 1, last), LAMBDA x : x.fn = "subscribe_symbol")
    IN  [i \in 1..Len(made) |-> made[i].symbol]

\* C14: whenever a reconnect succeeded, the calls of subscribe_symbol it made
\* on the adapter all follow its successful connect and carry the symbols of
\* the subscription list, each once and in the order of the list, and
\* subscription_replays has grown by the length of the list since the
\* reconnect began
C14_ReplayAfterReconnect ==
    \A m \in reconnects :
        reconnect_succeeded(m) =>
            /\ replayed(m) = wrapper.subscriptions
            /\ \A i \in reconnect_entries(m) :
                   calls[i].fn = "subscribe_symbol" =>
                       \E c \in connects_of(m) : c < i /\ calls[c].ok
            /\ m = latest_reconnect =>
                   wrapper.stats.subscription_replays =
                       call.entry.replays + Len(wrapper.subscriptions)

\* a second reconnect replayed two symbols after it had failed once
C14_Witness ==
    /\ Len(wrapper.subscriptions) = 2
    /\ wrapper.stats.subscription_replays = 2
    /\ latest_reconnect # 0
    /\ reconnect_succeeded(latest_reconnect)
    /\ \E i \in connects_of(latest_reconnect) : ~calls[i].ok

\* the first call of the adapter's poll_bar in the latest wrapper call failed
\* at entry i of calls
first_poll_failed(i) ==
    /\ calls[i].fn = "poll_bar"
    /\ ~calls[i].ok
    /\ \A k \in 1..(i - 1) : calls[k].fn # "poll_bar"

\* what poll_bar does after the adapter's poll_bar failed: the connection is
\* marked down and a reconnect begins at once, and when that reconnect
\* succeeded the call does not return before it polled the adapter again
poll_failure_handled ==
    \A i \in 1..Len(calls) :
        first_poll_failed(i) =>
            /\ i < Len(calls)
            /\ calls[i + 1].fn = "reconnect_with_backoff"
            /\ reconnect_entries(i + 1) = {} => ~wrapper.connected
            /\ (reconnect_succeeded(i + 1) /\ call.at = "idle") =>
                   \E j \in reconnect_entries(i + 1) : calls[j].fn = "poll_bar"

\* C15 as stated: a failed poll is handled as above, and
\* pump_from_resilient_adapter over the FlakyAdapter returns the requested
\* number of bars, all published on the feed, with reconnect_total >= 2 and
\* subscription_replays >= 1
C15_FlakyAdapterDelivers ==
    /\ poll_failure_handled
    /\ (adapter.kind = "flaky" /\ pump.state = "done" /\ pump.count >= 1) =>
           /\ pump.value = "Ok"
           /\ pump.published = pump.count
           /\ published = pump.count
           /\ wrapper.stats.reconnect_total >= 2
           /\ wrapper.stats.subscription_replays >= 1

\* C15 amended: the same for a policy of at least two attempts and a wrapper
\* on which at least one symbol was subscribed
C15_FlakyAdapterDeliversWithRetries ==
    /\ poll_failure_handled
    /\ (/\ adapter.kind = "flaky"
        /\ pump.state = "done"
        /\ pump.count >= 1
        /\ config.max_retries >= 2
        /\ wrapper.subscriptions # <<>>) =>
           /\ pump.value = "Ok"
           /\ pump.published = pump.count
           /\ published = pump.count
           /\ wrapper.stats.reconnect_total >= 2
           /\ wrapper.stats.subscription_replays >= 1

\* the pump delivered a bar over the FlakyAdapter after one failed connect
\* and one failed poll
C15_Witness ==
    /\ adapter.kind = "flaky"
    /\ pump.state = "done"
    /\ pump.value = "Ok"
    /\ pump.count = 1
    /\ published = 1
    /\ wrapper.stats.connect_failures = 2
    /\ wrapper.stats.reconnect_total = 2
    /\ wrapper.stats.subscription_replays >= 1
    /\ \E i \in 1..Len(calls) : first_poll_failed(i)

\* calls lists what a call of poll_bar did, finished or not
in_poll_bar == call.op = "poll_bar" \/ (call.at = "idle" /\ result.op = "poll_bar")

\* what ensure_live may do before the adapter is polled: reconnect without a
\* probe, probe once and reconnect exactly when the probe failed, or nothing
reconnects_unprobed ==
    /\ calls # <<>>
    /\ calls[1].fn = "reconnect_with_backoff"
    /\ \A i \in 1..Len(calls) : calls[i].fn # "heartbeat"

probes_once ==
    /\ calls = <<>> => call.at = "heartbeat"
    /\ calls # <<>> => calls[1].fn = "heartbeat"
    /\ \A i \in 2..Len(calls) : calls[i].fn # "heartbeat"
    /\ Len(calls) >= 2 =>
           (calls[2].fn = "reconnect_with_backoff" <=> ~calls[1].ok)
    /\ (calls # <<>> /\ ~calls[1].ok) => Len(calls) >= 2

polls_at_once ==
    /\ calls = <<>> => call.at = "poll"
    /\ calls # <<>> => calls[1].fn = "poll_bar"
    /\ \A i \in 1..Len(calls) : calls[i].fn # "heartbeat"

\* C16 as stated: a poll_bar on a wrapper that is not connected, or whose
\* silence exceeds heartbeat_timeout_ms, reconnects without probing;
\* otherwise a silence that exceeds heartbeat_interval_ms makes it probe
\* once and reconnect iff the probe fails; otherwise it polls at once
C16_LivenessCheckStrict ==
    in_poll_bar =>
        IF ~call.entry.connected \/ call.entry.last_seen > config.heartbeat_timeout_ms
        THEN reconnects_unprobed
        ELSE IF call.entry.last_seen > config.heartbeat_interval_ms
        THEN probes_once
        ELSE polls_at_once

\* C16 amended: the same with the silence counted from the last successful
\* connect, poll or probe and the thresholds reached: a silence of at least
\* heartbeat_timeout_ms reconnects without probing, otherwise a silence of at
\* least heartbeat_interval_ms probes
C16_LivenessCheck ==
    in_poll_bar =>
        IF ~call.entry.connected \/ call.entry.last_seen >= config.heartbeat_timeout_ms
        THEN reconnects_unprobed
        ELSE IF call.entry.last_seen >= config.heartbeat_interval_ms
        THEN probes_once
        ELSE polls_at_once

\* a probe failed below the timeout and the reconnect that followed succeeded
C16_Witness ==
    /\ in_poll_bar
    /\ call.entry.connected
    /\ call.entry.last_seen >= config.heartbeat_interval_ms
    /\ call.entry.last_seen < config.heartbeat_timeout_ms
    /\ Len(calls) >= 3
    /\ calls[1].fn = "heartbeat"
    /\ ~calls[1].ok
    /\ calls[3].fn = "connect"
    /\ calls[3].ok

\* C17: after subscribe_symbol the list holds the symbol, holds no symbol
\* twice, keeps the symbols it held in their order, grows only by a new
\* symbol at its end, and the adapter's subscribe_symbol was called, once and
\* with that symbol, iff the wrapper was connected when the call was made
C17_SubscribeIdempotentAndForwarded ==
    [][(wrapper_calls' # wrapper_calls /\ call.at = "idle" /\ call'.at = "idle") =>
           LET old == wrapper.subscriptions
               new == wrapper'.subscriptions
               held(symbol) == \E i \in 1..Len(old) : old[i] = symbol
           IN  /\ \A i, j \in 1..Len(new) : new[i] = new[j] => i = j
               /\ \/ new = old /\ calls' = <<>> /\ ~wrapper.connected
                  \/ /\ new = old
                     /\ wrapper.connected
                     /\ Len(calls') = 1
                     /\ calls'[1].fn = "subscribe_symbol"
                     /\ held(calls'[1].symbol)
                  \/ /\ Len(new) = Len(old) + 1
                     /\ SubSeq(new, 1, Len(old)) = old
                     /\ ~held(new[Len(new)])
                     /\ IF wrapper.connected
                        THEN /\ Len(calls') = 1
                             /\ calls'[1].fn = "subscribe_symbol"
                             /\ calls'[1].symbol = new[Len(new)]
                        ELSE calls' = <<>>
               /\ wrapper'.connected = wrapper.connected
    ]_vars

\* a second symbol was subscribed on a connected wrapper and forwarded
C17_Witness ==
    /\ result.op = "subscribe_symbol"
    /\ call.at = "idle"
    /\ wrapper.connected
    /\ Len(wrapper.subscriptions) = 2
    /\ Len(calls) = 1
    /\ calls[1].fn = "subscribe_symbol"
    /\ calls[1].symbol = wrapper.subscriptions[2]

\* the milliseconds slept right before entry i of calls
slept_before(i) == IF calls[i - 1].fn = "sleep" THEN calls[i - 1].ms ELSE 0

\* C18: in every reconnect the first connect attempt follows no sleep, the
\* attempt after k >= 1 failed ones follows a sleep of exactly
\* min(initial_delay_ms * 2^(k-1), max_delay_ms), and no sleep is longer
\* than max_delay_ms
C18_BackoffWithinMaxDelay ==
    /\ \A m \in reconnects :
           \A i \in connects_of(m) :
               LET k == Cardinality({j \in connects_of(m) : j < i})
               IN  slept_before(i) =
                       IF k = 0 THEN 0
                       ELSE Min2(config.initial_delay_ms * 2 ^ (k - 1), config.max_delay_ms)
    /\ \A i \in 1..Len(calls) :
           calls[i].fn = "sleep" => calls[i].ms <= config.max_delay_ms

\* ------------------------------------------------------------------------
\* Properties of the event notification
\* ------------------------------------------------------------------------
\* the event types a subscriber was called with, in the order of the calls
events_of(log, subscriber) ==
    LET mine == SelectSeq(log, LAMBDA x : x.subscriber = subscriber)
    IN  [i \in 1..Len(mine) |-> mine[i].event_type]

subscribed_to_all(subscriber) ==
    \E i \in 1..Len(observable.all_subscribers) : observable.all_subscribers[i] = subscriber

subscribed_to(subscriber, e) ==
    \E i \in 1..Len(observable.subscribers[e]) : observable.subscribers[e][i] = subscriber

\* C19: an append that adds a bar to a registered timeframe calls a
\* subscriber of all events six times, with SBarCreated, CBarChanged,
\* SwingChanged, TrendChanged, TimeframeEnd, MtcNewBar in this order, and a
\* subscriber of one event type once, with that type; every call names the
\* timeframe, is made when the timeframe already holds the new bar, and
\* carries the backtrack id its chain has after the update
C19_AppendNotifiesSixEventsInOrder ==
    [][\A t \in DOMAIN managers :
               Len(managers'[t].sbar_rows) = Len(managers[t].sbar_rows) + 1 =>
                   /\ \A i \in 1..Len(notified') :
                          /\ notified'[i].timeframe = t
                          /\ notified'[i].rows = Len(managers'[t].sbar_rows)
                          /\ notified'[i].backtrack_id =
                                 CASE notified'[i].event_type = "SBarCreated" -> None
                                   [] notified'[i].event_type = "SwingChanged" ->
                                          managers'[t].swing_backtrack_id
                                   [] notified'[i].event_type = "TrendChanged" ->
                                          managers'[t].trend_backtrack_id
                                   [] OTHER -> managers'[t].cbar_backtrack_id
                   /\ \A s \in Observers :
                          events_of(notified', s) =
                              IF subscribed_to_all(s)
                              THEN <<"SBarCreated", "CBarChanged", "SwingChanged",
                                     "TrendChanged", "TimeframeEnd", "MtcNewBar">>
                              ELSE IF \E e \in EventTypes : subscribed_to(s, e)
                              THEN <<CHOOSE e \in EventTypes : subscribed_to(s, e)>>
                              ELSE <<>>
    ]_vars

\* the second bar of a timeframe was announced to a subscriber of MtcNewBar
\* and to a subscriber of all events
C19_Witness ==
    /\ Len(notified) = 7
    /\ notified[1].rows = 2
    /\ notified[6].event_type = "MtcNewBar"
    /\ notified[7].event_type = "MtcNewBar"
    /\ subscribed_to(notified[6].subscriber, "MtcNewBar")
    /\ subscribed_to_all(notified[7].subscriber)

\* ------------------------------------------------------------------------
\* Properties of the id generators under concurrent callers
\* ------------------------------------------------------------------------
\* C20: the ids one generator returned grow strictly in the order in which
\* the calls held its mutex, so they are pairwise distinct, and ids returned
\* by the generators of two categories are never equal, however the
\* callers interleave and the clock moves
C20_IdsDistinctAndIncreasing ==
    \A i, j \in 1..Len(issued) :
        i < j =>
            IF issued[i].gen = issued[j].gen
            THEN issued[i].id < issued[j].id
            ELSE issued[i].id # issued[j].id

\* a generator returned the last id of a millisecond, wrapped, and returned
\* its next id while the clock had moved and another generator had returned
\* an id of its own
C20_Witness ==
    \E i, j, k \in 1..Len(issued) :
        /\ i < j
        /\ issued[i].gen = issued[j].gen
        /\ issued[i].id % (MAX_SEQUENCE + 1) = MAX_SEQUENCE
        /\ issued[j].id % (MAX_SEQUENCE + 1) = 0
        /\ issued[k].gen # issued[i].gen
        /\ clock < gens_now[issued[i].gen].last_timestamp

\* ------------------------------------------------------------------------
\* Properties of the ids of rebuilt rows
\* ------------------------------------------------------------------------
\* the rows of a rebuilt swing chain carry ids greater than every id of the
\* chain before the rebuild
swing_ids_fresh ==
    [][\A i \in DOMAIN swing_rows', j \in DOMAIN swing_rows :
           swing_rows'[i].id > swing_rows[j].id]_vars

\* C21: every rebuild gives the rows of the swing chain and of the trend
\* chain ids greater than every id of the chain before the rebuild, so that
\* an id once assigned to a swing or trend is never assigned again
C21_RebuiltRowsGetGreaterIds ==
    [][/\ \A i \in DOMAIN swing_rows', j \in DOMAIN swing_rows :
              swing_rows'[i].id > swing_rows[j].id
       /\ \A i \in DOMAIN trend_rows', j \in DOMAIN trend_rows :
              trend_rows'[i].id > trend_rows[j].id]_vars

\* ------------------------------------------------------------------------
\* Properties of confirmed swings
\* ------------------------------------------------------------------------
\* the chain rows holds a Confirmed swing with the direction and the CBar
\* range of s
still_confirmed(rows, s) ==
    \E k \in DOMAIN rows :
        /\ rows[k].state = "Confirmed"
        /\ rows[k].direction = s.direction
        /\ rows[k].cbar_start_id = s.cbar_start_id
        /\ rows[k].cbar_end_id = s.cbar_end_id

\* C22: a swing that is Confirmed after an append is still in the chain
\* after the next append, Confirmed and with the same direction,
\* cbar_start_id and cbar_end_id
C22_ConfirmedSwingStays ==
    [][\A i \in DOMAIN swing_rows :
           swing_rows[i].state = "Confirmed" => still_confirmed(swing_rows', swing_rows[i])]_vars

\* ------------------------------------------------------------------------
\* Properties of the key zones
\* ------------------------------------------------------------------------
\* C23: after every append every zone of the timeframe has lower <= upper,
\* touch_count >= 1 and a last_touch_id that is present and lies within
\* its sbar_start_id and sbar_end_id
C23_KeyZoneSpan ==
    \A z \in DOMAIN keyzone.rows :
        LET zone == keyzone.rows[z]
        IN  /\ zone.lower <= zone.upper
            /\ zone.touch_count >= 1
            /\ zone.last_touch_id # None
            /\ zone.sbar_start_id <= zone.last_touch_id
            /\ zone.last_touch_id <= zone.sbar_end_id

\* ------------------------------------------------------------------------
\* Properties of the rows of the trend chain
\* ------------------------------------------------------------------------
\* the confirmed swings handed to the trend manager with ids from
\* swing_start_id to swing_end_id of the trend
swings_of_trend(trend) ==
    SelectSeq(swings_of(tr_points),
              LAMBDA s : /\ s.state = "Confirmed"
                         /\ trend.swing_start_id <= s.id
                         /\ s.id <= trend.swing_end_id)

\* C24: after any trend rebuild, among the confirmed swings in the swing
\* range of a trend those that run in the direction of the trend are at
\* least as many as those that run the other way
C24_TrendDirectionDominates ==
    \A t \in DOMAIN trend_rows :
        LET in_range == swings_of_trend(trend_rows[t])
            same == {i \in DOMAIN in_range : in_range[i].direction = trend_rows[t].direction}
            other == {i \in DOMAIN in_range :
                         in_range[i].direction = opposite(trend_rows[t].direction)}
        IN  Cardinality(same) >= Cardinality(other)

\* C25: after any trend rebuild every row of the trend chain carries an id,
\* the ids increase strictly along the chain, swing_start_id <= swing_end_id,
\* sbar_start_id <= sbar_end_id, and the direction is Up or Down
C25_TrendRowsWellFormed ==
    /\ \A t \in DOMAIN trend_rows :
           /\ trend_rows[t].id # None
           /\ trend_rows[t].swing_start_id <= trend_rows[t].swing_end_id
           /\ trend_rows[t].sbar_start_id <= trend_rows[t].sbar_end_id
           /\ trend_rows[t].direction \in {"Up", "Down"}
    /\ \A t \in 1..(Len(trend_rows) - 1) : trend_rows[t].id < trend_rows[t + 1].id

\* ------------------------------------------------------------------------
\* C26: ticks into M1 bars
\* ------------------------------------------------------------------------
\* the bar in progress for the tick of log entry e when the call began
bar_in_progress(e) ==
    LET key == <<e.op.tick.symbol, e.op.tick.exchange>>
    IN  IF key \in DOMAIN e.before THEN e.before[key].current_bar ELSE <<>>

\* the ingest_tick calls of the log follow the rule of the same and of a
\* different minute
ticks_by_minute ==
    \A i \in DOMAIN tick_log :
        LET e == tick_log[i]
            tick == e.op.tick
            key == <<tick.symbol, tick.exchange>>
            bar == bar_in_progress(e)
            opened == e.after[key].current_bar
        IN  e.op.name = "ingest_tick" /\ bar # <<>> =>
                IF bar[1].datetime = minute_of(tick.datetime)
                THEN e.bars = <<>>
                ELSE /\ e.bars = bar
                     /\ opened # <<>>
                     /\ opened[1].datetime = minute_of(tick.datetime)
                     /\ opened[1].open_price = tick.last_price

\* the flush_ticks calls of the log emit every bar in progress once, leave no
\* bar in progress, and emit nothing right after another flush
flush_once ==
    \A i \in DOMAIN tick_log :
        LET e == tick_log[i]
            open_keys == {k \in DOMAIN e.before : e.before[k].current_bar # <<>>}
        IN  e.op.name = "flush_ticks" =>
                /\ Len(e.bars) = Cardinality(open_keys)
                /\ {e.bars[j] : j \in DOMAIN e.bars}
                       = {e.before[k].current_bar[1] : k \in open_keys}
                /\ \A k \in DOMAIN e.after : e.after[k].current_bar = <<>>
                /\ (i > 1 /\ tick_log[i - 1].op.name = "flush_ticks" => e.bars = <<>>)

\* the log positions of the ticks of a symbol
ticks_of(symbol) ==
    {i \in DOMAIN tick_log :
        tick_log[i].op.name = "ingest_tick" /\ tick_log[i].op.tick.symbol = symbol}

\* the ticks of the symbol came with non-decreasing timestamps
non_decreasing(symbol) ==
    \A i, j \in ticks_of(symbol) :
        i < j => tick_log[i].op.tick.datetime <= tick_log[j].op.tick.datetime

\* the M1 bars emitted for the symbol: log position and place in the call
emissions(symbol) ==
    {<<i, j>> \in (DOMAIN tick_log) \X (1..Cardinality(TickSymbols)) :
        j <= Len(tick_log[i].bars) /\ tick_log[i].bars[j].symbol = symbol}

one_bar_per_minute(symbol) ==
    \A p, q \in emissions(symbol) :
        p # q => tick_log[p[1]].bars[p[2]].datetime # tick_log[q[1]].bars[q[2]].datetime

\* a flush came between two ticks of the symbol that fall in one minute
flush_within_minute(symbol) ==
    \E i, j \in ticks_of(symbol) :
        /\ i < j
        /\ minute_of(tick_log[i].op.tick.datetime) = minute_of(tick_log[j].op.tick.datetime)
        /\ \E f \in (i + 1)..(j - 1) : tick_log[f].op.name = "flush_ticks"

bar_of_buffer(bar, buffer) ==
    /\ bar.open_price = buffer[1].open_price
    /\ bar.close_price = Last(buffer).close_price
    /\ \A i \in DOMAIN buffer : buffer[i].high_price <= bar.high_price
    /\ \E i \in DOMAIN buffer : buffer[i].high_price = bar.high_price
    /\ \A i \in DOMAIN buffer : buffer[i].low_price >= bar.low_price
    /\ \E i \in DOMAIN buffer : buffer[i].low_price = bar.low_price
    /\ bar.volume = sum([i \in DOMAIN buffer |-> buffer[i].volume])
    /\ bar.turnover = sum([i \in DOMAIN buffer |-> buffer[i].turnover])
    /\ bar.datetime = Last(buffer).datetime

\* C27: an aggregator with window k emits on every k-th M1 bar it is fed and
\* on no other; the bar emitted has the open of the first buffered bar, the
\* close and the timestamp of the last, the maximum high, the minimum low
\* and the sums of volume and turnover, and the buffer is empty afterwards
C27_WindowEmitsEveryKth ==
    [][windows'.fed = windows.fed + 1 =>
          \A tf \in WindowTimeframes :
              LET buffer == Append(windows.aggregators[tf].buffer, windows'.m1_bar[1])
                  out == windows'.out[tf]
              IN  /\ out # <<>> <=> windows'.fed % window_of(tf) = 0
                  /\ out # <<>> =>
                         /\ Len(buffer) = window_of(tf)
                         /\ bar_of_buffer(out[1], buffer)
                         /\ windows'.aggregators[tf].buffer = <<>>]_vars

\* the 1440th bar of the stream has been fed and every aggregator emitted
C27_Witness ==
    /\ windows.fed = 1440
    /\ \A tf \in WindowTimeframes : windows.out[tf] # <<>>

\* ------------------------------------------------------------------------
\* C28: a restart cancels the readers of earlier epochs
\* ------------------------------------------------------------------------
\* a reader handles a message only if it arrived under the reader's own epoch
stale_reader_exits ==
    \A r \in DOMAIN ws.readers :
        ws.readers[r].pc = "matching" => ws.readers[r].arrived_at = r

\* C28 as stated: once a restart has incremented the epoch, a reader of an
\* earlier epoch pushes no further bar and exits when its next message
\* arrives
C28_StaleReaderPushesNothing ==
    /\ \A i \in DOMAIN ws.pushed : ws.pushed[i].epoch = ws.pushed[i].reader
    /\ stale_reader_exits

\* C28 amended: once a restart has incremented the epoch, a reader of an
\* earlier epoch pushes at most one further bar, the bar of a message that
\* arrived before the increment, and exits when its next message arrives
C28_StaleReaderPushesAtMostOne ==
    /\ \A i \in DOMAIN ws.pushed : ws.pushed[i].arrived_at = ws.pushed[i].reader
    /\ \A r \in DOMAIN ws.readers :
           Cardinality({i \in DOMAIN ws.pushed :
                           ws.pushed[i].reader = r /\ ws.pushed[i].epoch # r}) <= 1
    /\ stale_reader_exits

\* a restart came while reader 1 had a bar message in its hands: it pushed
\* that bar, and left its loop without a push when its next message arrived
C28_Witness ==
    /\ ws.ws_epoch >= 2
    /\ \E i \in DOMAIN ws.pushed :
           ws.pushed[i] = [reader |-> 1, epoch |-> 2, arrived_at |-> 1]
    /\ ws.readers[1].pc = "after_loop"
    /\ ws.readers[1].arrived_at >= 2

\* ------------------------------------------------------------------------
\* C29: the CBar backtrack id
\* ------------------------------------------------------------------------
\* the pre-update CBar at position i is in the post-update chain as it was
cbar_kept(previous, current, i) ==
    /\ i <= Len(current)
    /\ previous[i].id = current[i].id
    /\ previous[i].sbar_start_id = current[i].sbar_start_id
    /\ previous[i].sbar_end_id = current[i].sbar_end_id
    /\ previous[i].high_price = current[i].high_price
    /\ previous[i].low_price = current[i].low_price
    /\ previous[i].fractal_type = current[i].fractal_type

\* C29: after a CBar update the backtrack id is absent exactly when the chain
\* before is a prefix of the chain after; otherwise it is the id of the
\* earliest CBar of the chain before that is missing from or different in
\* the chain after
C29_CBarBacktrackId ==
    [][Len(sbar_rows') = Len(sbar_rows) + 1 =>
          LET lost == {i \in DOMAIN cbar_rows : ~cbar_kept(cbar_rows, cbar_rows', i)}
          IN  /\ cbar_backtrack_id' = None <=> lost = {}
              /\ lost # {} =>
                     \E i \in lost : /\ \A j \in lost : i <= j
                                     /\ cbar_backtrack_id' = cbar_rows[i].id]_vars

\* an update reported the id of a CBar that it merged away or relabelled
C29_Witness ==
    /\ Len(cbar_rows) >= 2
    /\ cbar_backtrack_id # None
    /\ \A i \in DOMAIN cbar_rows : cbar_rows[i].id # cbar_backtrack_id

\* ------------------------------------------------------------------------
\* C30: the backtrack id of a swing rebuild
\* ------------------------------------------------------------------------
\* the swing at position i before the rebuild is in the chain after it with
\* its direction, range, extremes and state
swing_kept(previous, current, i) ==
    /\ i <= Len(current)
    /\ previous[i].direction = current[i].direction
    /\ previous[i].cbar_start_id = current[i].cbar_start_id
    /\ previous[i].cbar_end_id = current[i].cbar_end_id
    /\ previous[i].sbar_start_id = current[i].sbar_start_id
    /\ previous[i].sbar_end_id = current[i].sbar_end_id
    /\ previous[i].high_price = current[i].high_price
    /\ previous[i].low_price = current[i].low_price
    /\ previous[i].state = current[i].state

\* a rebuild of a chain that held swings kept every one of them
swings_all_kept ==
    /\ swing_rows # <<>>
    /\ \A i \in DOMAIN swing_rows : swing_kept(swing_rows, swing_rows', i)


\* the positions at which a swing rebuild changed the chain: a row that
\* differs from the row before, a row that is gone, and, when the CBar update
\* reported a backtrack, a row appended at the tail
swing_changes ==
    {i \in DOMAIN swing_rows \cup DOMAIN swing_rows' :
        \/ i > Len(swing_rows')
        \/ i > Len(swing_rows) /\ cbar_backtrack_id' # None
        \/ /\ i <= Len(swing_rows)
           /\ i <= Len(swing_rows')
           /\ ~swing_eq_wo_created_at(swing_rows[i], swing_rows'[i])}

\* the swing rebuild reports the id of the first changed row, or none
swing_first_changed_reported ==
    IF swing_changes = {} THEN swing_backtrack_id' = None
    ELSE \E i \in swing_changes :
             /\ \A j \in swing_changes : i <= j
             /\ swing_backtrack_id' =
                    IF i <= Len(swing_rows) THEN swing_rows[i].id ELSE swing_rows'[i].id

\* the swing rebuild reports no id, or the id of a row not before the first
\* new row
swing_reports_no_earlier ==
    \/ swing_backtrack_id' = None
    \/ /\ Len(swing_rows') > Len(swing_rows)
       /\ swing_backtrack_id' >= swing_rows'[Len(swing_rows) + 1].id

\* C30: a swing rebuild reports the id of the first row whose record differs
\* between the chain before and the chain after, rows appended at the tail
\* counting as a change only when the CBar update reported a backtrack; when
\* every row of the chain before keeps its direction, range, extremes and
\* state, no id earlier than the first new or modified row is reported
C30_SwingBacktrackId ==
    [][Len(sbar_rows') = Len(sbar_rows) + 1 =>
          /\ swing_first_changed_reported
          /\ swings_all_kept => swing_reports_no_earlier]_vars

\* the first half of C30 on its own
swing_backtrack_names_first_change ==
    [][Len(sbar_rows') = Len(sbar_rows) + 1 => swing_first_changed_reported]_vars

\* ------------------------------------------------------------------------
\* C34: the extremes of a CBar
\* ------------------------------------------------------------------------
\* the SBars a CBar covers
sbars_of(cbar) ==
    {sbar_rows[i] : i \in sbar_pos(cbar.sbar_start_id)..sbar_pos(cbar.sbar_end_id)}

\* the chain test_multiple_inclusive_merge builds: SBars 1, 2, 3 with (high,
\* low) = (10,1), (9,2), (12,0)
test_multiple_inclusive_merge ==
    LET sbar(id, high, low) == [id |-> id, high_price |-> high, low_price |-> low]
        third(r) == on_sbar(r.rows, sbar(3, 12, 0), r.inner, 1).rows
        second(r) == third(on_sbar(r.rows, sbar(2, 9, 2), r.inner, 1))
    IN  second(on_sbar(<<>>, sbar(1, 10, 1), NewInner, 1))

\* C34: after every append the high of each CBar is the maximum high and its
\* low the minimum low of the SBars it covers; SBars (10,1), (9,2), (12,0)
\* leave one CBar that covers all three with high 12 and low 0
C34_CBarExtremes ==
    /\ \A i \in DOMAIN cbar_rows :
           /\ \A s \in sbars_of(cbar_rows[i]) :
                  s.high_price <= cbar_rows[i].high_price
                      /\ s.low_price >= cbar_rows[i].low_price
           /\ \E s \in sbars_of(cbar_rows[i]) : s.high_price = cbar_rows[i].high_price
           /\ \E s \in sbars_of(cbar_rows[i]) : s.low_price = cbar_rows[i].low_price
    /\ Len(test_multiple_inclusive_merge) = 1
    /\ test_multiple_inclusive_merge[1].sbar_start_id = 1
    /\ test_multiple_inclusive_merge[1].sbar_end_id = 3
    /\ test_multiple_inclusive_merge[1].high_price = 12
    /\ test_multiple_inclusive_merge[1].low_price = 0

\* a CBar over three SBars whose high and low come from different SBars,
\* neither of them the last
C34_Witness ==
    \E i \in DOMAIN cbar_rows :
        LET first == sbar_pos(cbar_rows[i].sbar_start_id)
            last == sbar_pos(cbar_rows[i].sbar_end_id)
        IN  /\ last >= first + 2
            /\ sbar_rows[last].high_price < cbar_rows[i].high_price
            /\ sbar_rows[last].low_price > cbar_rows[i].low_price
            /\ \E a, b \in first..(last - 1) :
                   /\ a # b
                   /\ sbar_rows[a].high_price = cbar_rows[i].high_price
                   /\ sbar_rows[a].low_price > cbar_rows[i].low_price
                   /\ sbar_rows[b].low_price = cbar_rows[i].low_price

\* ------------------------------------------------------------------------
\* C40: ws_running and the reader of the current epoch
\* ------------------------------------------------------------------------
\* C40: with no restart under way, ws_running is false only when the reader
\* of the current epoch failed to connect or has left its loop: no reader of
\* an earlier epoch clears it while the latest reader connects or reads
C40_RunningWhileLatestReaderLives ==
    /\ ~ws.spawning
    /\ ws.readers # <<>>
    /\ Last(ws.readers).pc \in {"connecting", "reading", "arrived", "matching"}
    => ws.ws_running

\* ------------------------------------------------------------------------
\* C35: the volume and turnover credited to the M1 bars of a symbol
\* ------------------------------------------------------------------------
\* the ticks of the symbol in the order of their arrival
ticks_in_order(symbol) ==
    LET of_symbol(e) == e.op.name = "ingest_tick" /\ e.op.tick.symbol = symbol
        ticks == SelectSeq(tick_log, of_symbol)
    IN  [i \in DOMAIN ticks |-> ticks[i].op.tick]

\* the increment of a cumulative counter between two ticks, 0 when it fell
increment(prev, next) == IF next >= prev THEN next - prev ELSE 0

\* the M1 bars of the symbol given by the aggregators so far and the bar in
\* progress
bars_of_symbol(symbol) ==
    LET given(e) == SelectSeq(e.bars, LAMBDA bar : bar.symbol = symbol)
        key == <<symbol, "X">>
        in_progress ==
            IF key \in DOMAIN receiver.tick_aggregators
            THEN receiver.tick_aggregators[key].current_bar ELSE <<>>
        RECURSIVE upto(_)
        upto(i) == IF i = 0 THEN <<>> ELSE upto(i - 1) \o given(tick_log[i])
    IN  upto(Len(tick_log)) \o in_progress

confirmed_swings ==
    LET swings == marked_swings(tr_points, tr_states)
        confirmed == {k \in DOMAIN swings : swings[k].state = "Confirmed"}
        RECURSIVE upto(_)
        upto(k) == IF k = 0 THEN <<>>
                   ELSE IF k \in confirmed THEN Append(upto(k - 1), swings[k])
                   ELSE upto(k - 1)
    IN  upto(Len(swings))

\* a and c run one way and b the other way, the three price ranges share a
\* band, and c lies strictly beyond a in the direction of a
seed_condition(a, b, c) ==
    /\ a.direction \in {"Up", "Down"}
    /\ c.direction = a.direction
    /\ b.direction # a.direction
    /\ \E price \in 1..MaxLevel + MaxSeedLevel :
           \A s \in {a, b, c} : s.low_price <= price /\ price <= s.high_price
    /\ IF a.direction = "Up"
       THEN c.high_price > a.high_price /\ c.low_price > a.low_price
       ELSE c.high_price < a.high_price /\ c.low_price < a.low_price

\* C33: the trend rebuild looks at the Confirmed swings only, and the trend
\* chain is non-empty exactly when there are at least three Confirmed swings
\* and some three consecutive ones satisfy the seed condition
C33_SeedNeedsThreeConfirmed ==
    Len(tr_states) > 0 =>
        (trend_rows # <<>>
            <=> /\ Len(confirmed_swings) >= 3
                /\ \E i \in 1..(Len(confirmed_swings) - 2) :
                       seed_condition(confirmed_swings[i], confirmed_swings[i + 1],
                                      confirmed_swings[i + 2]))

\* three Confirmed swings of five seed a trend across two PendingReverse
\* swings that lie between them
C33_Witness ==
    /\ Len(tr_states) = 5
    /\ tr_states[2] = "PendingReverse"
    /\ tr_states[3] = "PendingReverse"
    /\ Len(confirmed_swings) = 3
    /\ trend_rows # <<>>

\* three Confirmed swings whose directions and extremes would seed a trend
\* but whose price ranges share no band, and no trend
C33_WitnessNoBand ==
    /\ Len(confirmed_swings) = 3
    /\ confirmed_swings[1].direction = confirmed_swings[3].direction
    /\ confirmed_swings[1].direction # confirmed_swings[2].direction
    /\ confirmed_swings[3].low_price > confirmed_swings[1].high_price
    /\ trend_rows = <<>>

\* ------------------------------------------------------------------------
\* C36: every ingested bar is accounted for once
\* ------------------------------------------------------------------------
\* no ingest_broker_bar call is under way
ingests_completed ==
    \A p \in Producers :
        /\ ingest[p].pc = "push"
        /\ threads[p].pc = "idle"
        /\ threads[p].pushed = ingest[p].calls

\* the bars pop_ingress returned: those that entered the ring (every push
\* that did not return DroppedNewest) less those an evicting push took out
\* (pop_log) and those still in the ring
returned_by_pop_ingress == (published - dropped_newest) - Len(pop_log) - Len(queue)

\* C36: once all calls have completed, published = bars still in the ring +
\* bars returned by pop_ingress + dropped, under every interleaving of
\* ingests and pops
C36_EveryBarAccountedOnce ==
    ingests_completed => published = Len(queue) + returned_by_pop_ingress + dropped

\* ------------------------------------------------------------------------
\* C38: a poll that succeeds finds the whole replay list forwarded
\* ------------------------------------------------------------------------
\* C38: whenever the wrapper's poll_bar returns a bar or no bar, every
\* symbol of the replay list has been forwarded to the adapter since the
\* adapter's latest successful connect, also after calls that returned an
\* error part-way through a replay
C38_PollFindsListReplayed ==
    [][/\ call.at # "idle"
       /\ call'.at = "idle"
       /\ result'.op = "poll_bar"
       /\ result'.value \in {"Bar", "NoBar"}
       => \A i \in DOMAIN wrapper'.subscriptions :
              wrapper'.subscriptions[i] \in forwarded']_vars

\* ------------------------------------------------------------------------
\* C39: close and drop of the AsyncBarStore terminate
\* ------------------------------------------------------------------------
\* close or drop is under way
closing == bar_store.op \in {"close", "drop"}

\* C39: every close and every drop of the store returns, whatever the
\* bounded queue holds when it is called, a full queue included
C39_CloseTerminates == closing ~> ~closing

\* the state in which the claim fails: the owner waits for the worker to
\* end, the worker waits for a message, the channel is empty and its sender
\* is alive in the waiting owner
close_hangs ==
    /\ bar_store.caller = "join"
    /\ bar_store.worker = "recv"
    /\ bar_store.queue = <<>>
    /\ bar_store.sender

\* ------------------------------------------------------------------------
\* The pipeline over longer chains: the same append as AppendBar with the
\* clock standing still, so that a chain holds two fractals and more
\* ------------------------------------------------------------------------
MaxChainBars == 6
MaxChainPrice == 3
ChainPrices == 1..MaxChainPrice

\* DataReceiver::ingest_bar -> TimeframeManager::append within one clock
\* reading
AppendChainBar(high, low) ==
    /\ Len(sbar_rows) < MaxChainBars
    /\ low <= high
    /\ StoreA(timeframe_append(tf_a, gens_now,
                               [high_price |-> high, low_price |-> low], clock))
    /\ UNCHANGED <<clock, restVars, tr_points, detVars, marketVars>>

NextChain == \E high \in ChainPrices, low \in ChainPrices : AppendChainBar(high, low)
SpecChain == InitPipeline /\ [][NextChain]_vars

\* ------------------------------------------------------------------------
\* C31: a fractal whose envelope touches the start fractal's envelope
\* ------------------------------------------------------------------------
\* the pivots of the CBar chain whose triple is a fractal, in chain order
fractal_pivots(cbars) ==
    {i \in 2..(Len(cbars) - 1) : fractal_type(mk_fractal(cbars, i)) # "None"}

\* the envelopes share one price and nothing more
envelopes_touch(a, b) ==
    Max2(fractal_low_price(a), fractal_low_price(b))
        = Min2(fractal_high_price(a), fractal_high_price(b))

\* C31: when the chain holds two fractals, the second one of the kind
\* opposite to the first (the start fractal of the active swing), and their
\* envelopes merely touch, the rebuild has capped the first swing and
\* opened a second swing in the opposite direction
C31_TouchingFractalCaps ==
    LET capped(first, second) ==
            /\ fractal_type(first) # fractal_type(second)
            /\ envelopes_touch(first, second)
            => /\ Len(swing_rows) >= 2
               /\ swing_rows[2].direction = opposite(swing_rows[1].direction)
        two(pivots) ==
            Cardinality(pivots) = 2
            => capped(mk_fractal(cbar_rows, CHOOSE i \in pivots : \A j \in pivots : i <= j),
                      mk_fractal(cbar_rows, CHOOSE i \in pivots : \A j \in pivots : i >= j))
    IN  two(fractal_pivots(cbar_rows))

\* no rebuild ever caps a swing: the chain never holds a second swing
chain_of_one_swing == Len(swing_rows) <= 1

\* every rebuild draws at most one swing id: the id of the first swing.  A
\* cap draws a second one for the swing it opens, so no rebuild caps a
\* swing, not even one that a later fractal resumes
rebuild_never_caps ==
    [][\/ swing_gen' = swing_gen
       \/ swing_gen' = get_id(swing_gen, WORKER_SWING, clock).inner]_vars

====
